---- MODULE Spec2Model ----
(***************************************************************************)
(* State-machine model of the realtime subtitle translator:                *)
(*   src/gummy.py            (ModernFloatingSubtitleWindow,                *)
(*                            TranslationService)                          *)
(*   src/gummy_translator.py (FloatingSubtitleWindow, gummyAsrTask,        *)
(*                            cosyvoiceTtsTask)                            *)
(* The variable `program` says which of the two programs is running.       *)
(* Python text is modelled by ASCII strings: "t" and "h" stand for two     *)
(* ordinary characters, "," for the fullwidth comma, ";" for the           *)
(* ideographic comma and "." for the ideographic full stop.                *)
(***************************************************************************)
EXTENDS Naturals, Sequences, FiniteSets, TLC

VARIABLES
    program,                      \* "gummy" | "gummy_translator"
    \* ---- the window
    chinese_text_buffer,          \* [lines, maxlen]: source-language transcript
    target_language_text_buffer,  \* [lines, maxlen]: target-language transcript
    chinese_text_box,             \* text rendered in the source text box
    target_text_box,              \* text rendered in the target text box
    ui_pc,                        \* where the UI thread is inside a handler that sleeps
    \* ---- TranslationService (gummy.py) / module globals (gummy_translator.py)
    source_language,
    target_language,
    is_running,
    api_key,                      \* whether an API key is configured (non-empty)
    enable_tts,
    cfg_tts_key,                  \* whether the config holds a TTS API key
    tts_api_key,                  \* attribute tts_api_key: "unset" | "set"
    asr_thread,                   \* index into workers, 0: no such attribute
    tts_thread,                   \* index into workers, 0: no such attribute
    last_status,                  \* the last text given to ui.post_status_update
    mic,                          \* 0: None, else the id of the PyAudio instance
    audio_stream,                 \* 0: None, else the id of the capture stream
    open_streams,                 \* ids of the capture streams that are open
    wx_text_queue,                \* queue of <<transcription, translation>>
    asr_fixed_words,              \* queue of [word, is_sentence_end]
    \* ---- threads and recognition sessions
    workers,                      \* every thread start() ever launched
    sessions,                     \* every Callback/translator asr_task ever made
    tts_requests,                 \* every synthesis request sent, in order
    \* ---- bookkeeping of the run
    budget,                       \* number of calls, results and failures the run
                                  \* may still contain
    op                            \* the last call of the window, result or close
                                  \* delivered by the recognizer, failure of a
                                  \* thread or round of the synthesis worker, with
                                  \* its inputs; on_open and the loops of the
                                  \* worker threads leave it alone

winVars == <<chinese_text_buffer, target_language_text_buffer,
             chinese_text_box, target_text_box>>

langVars == <<source_language, target_language>>

svcVars == <<is_running, api_key, enable_tts, cfg_tts_key, tts_api_key,
             asr_thread, tts_thread, last_status>>

devVars == <<mic, audio_stream, open_streams>>

queueVars == <<wx_text_queue, asr_fixed_words>>

thrVars == <<workers, sessions, tts_requests>>

vars == <<program, winVars, ui_pc, langVars, svcVars, devVars, queueVars,
          thrVars, budget, op>>

(***************************************************************************)
(* Constants of the program and bounds of the model                        *)
(***************************************************************************)
MAX_BUFFER_SIZE == 20

MaxEvents == 2

MaxSentences == 22

MaxWordEvents == 2

MaxServiceEvents == 4

MaxRetryCount == 3

max_retries == 3

FLUSH_LENGTH == 15

NoMaxlen == 0   \* a plain Python list: no maxlen

(***************************************************************************)
(* Values                                                                  *)
(***************************************************************************)
NoResult == [present |-> FALSE]

NoStash == [present |-> FALSE]

W(t, f) == [text |-> t, fixed |-> f]

Res(ws, e) == [present |-> TRUE, words |-> ws, is_sentence_end |-> e, stash |-> NoStash]

ResStash(ws, e, sw) ==
    [present |-> TRUE, words |-> ws, is_sentence_end |-> e,
     stash |-> [present |-> TRUE, words |-> sw]]

\* TranslationService.SUPPORTED_LANGUAGES
SUPPORTED_LANGUAGES ==
    {"zh-CN", "en-US", "ja-JP", "ko-KR", "fr-FR", "de-DE", "es-ES", "ru-RU", "it-IT",
     "pt-PT"}

\* target_language.split('-')[0].lower()
LangCode(l) ==
    CASE l = "zh-CN" -> "zh"
      [] l = "en-US" -> "en"
      [] l = "ja-JP" -> "ja"
      [] OTHER -> l

\* TranslationResult.get_translation(lang): the translation for lang, or None
get_translation(translation_result, lang) ==
    IF translation_result.present /\ translation_result.lang = lang
    THEN translation_result.translation
    ELSE NoResult

TranslationFor(lang, r) == [present |-> TRUE, lang |-> lang, translation |-> r]

(***************************************************************************)
(* TextReconciler: process_result inside update_text                       *)
(***************************************************************************)
RECURSIVE JoinWords(_, _)
\* ''.join(word.text for word in words if word.fixed == f)
JoinWords(words, f) ==
    IF words = <<>> THEN ""
    ELSE (IF Head(words).fixed = f THEN Head(words).text ELSE "")
         \o JoinWords(Tail(words), f)

fixed_text(words) == JoinWords(words, TRUE)

unfixed_text(words) == JoinWords(words, FALSE)

EmptyLine == <<"", "">>

\* text_buffer[-1] = line
SetTail(buf, line) ==
    [buf EXCEPT !.lines = [@ EXCEPT ![Len(@)] = line]]

\* append that never drops a line
BufAppendNoEvict(buf, line) ==
    [buf EXCEPT !.lines = Append(@, line)]

\* text_buffer.append(line): a deque with maxlen drops its oldest element
\* when it is full, a list only grows
BufAppend(buf, line) ==
    IF buf.maxlen # NoMaxlen /\ Len(buf.lines) >= buf.maxlen
    THEN [buf EXCEPT !.lines = Append(Tail(@), line)]
    ELSE [buf EXCEPT !.lines = Append(@, line)]

RECURSIVE JoinLines(_)
\* ''.join([x[0] + x[1] for x in lines])
JoinLines(lines) ==
    IF lines = <<>> THEN ""
    ELSE Head(lines)[1] \o Head(lines)[2] \o JoinLines(Tail(lines))

\* a rendering that writes the tail line only
Render_tail_only(buf) ==
    buf.lines[Len(buf.lines)][1] \o buf.lines[Len(buf.lines)][2]

\* what process_result writes to the text box: the closed lines, then the tail
Render(buf) ==
    JoinLines(SubSeq(buf.lines, 1, Len(buf.lines) - 1))
    \o buf.lines[Len(buf.lines)][1] \o buf.lines[Len(buf.lines)][2]

\* process_result with its two steps in the wrong order: the new line is
\* appended before the tail is overwritten
process_result_append_first(result, text_buffer) ==
    LET ended == IF result.is_sentence_end THEN BufAppend(text_buffer, EmptyLine)
                 ELSE text_buffer
    IN  SetTail(ended, <<fixed_text(result.words), unfixed_text(result.words)>>)

\* a reconciler that treats a result as a delta: the fixed words are added to
\* the tail's fixed part
process_result_delta(result, text_buffer) ==
    LET tail   == text_buffer.lines[Len(text_buffer.lines)]
        tailed == SetTail(text_buffer,
                          <<tail[1] \o fixed_text(result.words), unfixed_text(result.words)>>)
    IN  IF result.is_sentence_end THEN BufAppend(tailed, EmptyLine) ELSE tailed

\* gummy.py process_result: the buffer after one result
process_result(result, text_buffer) ==
    LET tailed == SetTail(text_buffer,
                          <<fixed_text(result.words), unfixed_text(result.words)>>)
    IN  IF result.is_sentence_end THEN BufAppend(tailed, EmptyLine) ELSE tailed

\* gummy.py update_text, first statement: only the target buffer is trimmed
TrimTarget(buf) ==
    IF Len(buf.lines) > MAX_BUFFER_SIZE
    THEN [lines |-> SubSeq(buf.lines, Len(buf.lines) - MAX_BUFFER_SIZE + 1, Len(buf.lines)),
          maxlen |-> NoMaxlen]
    ELSE buf

\* gummy_translator.py process_result: the stash step comes after the
\* sentence-end step. subscript_ok: whether word['fixed'] on a stash word
\* evaluates (it does not on a plain object, and the call then raises after
\* the buffer has been changed).
gt_process_result(result, text_buffer, subscript_ok) ==
    LET tailed == SetTail(text_buffer,
                          <<fixed_text(result.words), unfixed_text(result.words)>>)
        ended  == IF result.is_sentence_end THEN BufAppend(tailed, EmptyLine) ELSE tailed
    IN  IF ~result.stash.present THEN ended
        ELSE IF result.stash.words # <<>> /\ ~subscript_ok THEN ended
        ELSE SetTail(ended, <<fixed_text(result.stash.words),
                              unfixed_text(result.stash.words)>>)

\* whether gt_process_result raised before rendering
gt_raises(result, subscript_ok) ==
    result.stash.present /\ result.stash.words # <<>> /\ ~subscript_ok

(***************************************************************************)
(* Operations of the window                                                *)
(***************************************************************************)
\* ModernFloatingSubtitleWindow.update_text
update_text(transcription_result, translation_result) ==
    LET trimmed     == TrimTarget(target_language_text_buffer)
        translation == get_translation(translation_result, LangCode(target_language))
    IN  /\ program = "gummy"
        /\ ui_pc = "idle"
        /\ budget > 0
        /\ budget' = budget - 1
        /\ IF transcription_result.present
           THEN /\ chinese_text_buffer' = process_result(transcription_result, chinese_text_buffer)
                /\ chinese_text_box' = Render(chinese_text_buffer')
           ELSE UNCHANGED <<chinese_text_buffer, chinese_text_box>>
        /\ IF translation.present
           THEN /\ target_language_text_buffer' = process_result(translation, trimmed)
                /\ target_text_box' = Render(target_language_text_buffer')
           ELSE /\ target_language_text_buffer' = trimmed
                /\ UNCHANGED target_text_box
        /\ op' = [name |-> "update_text", transcription |-> transcription_result,
                  translation |-> translation]
        /\ UNCHANGED <<program, ui_pc, langVars, svcVars, devVars, queueVars, thrVars>>

\* FloatingSubtitleWindow.update_text (gummy_translator.py): the target
\* language is the module constant 'zh'; an exception raised for the source
\* track leaves the target track unprocessed
gt_update_text(asr_result, translation_result, subscript_ok) ==
    LET translation == get_translation(translation_result, "zh")
        zh_raised   == asr_result.present /\ gt_raises(asr_result, subscript_ok)
    IN  /\ program = "gummy_translator"
        /\ budget > 0
        /\ budget' = budget - 1
        /\ IF asr_result.present
           THEN /\ chinese_text_buffer' =
                      gt_process_result(asr_result, chinese_text_buffer, subscript_ok)
                /\ chinese_text_box' =
                      IF zh_raised THEN chinese_text_box ELSE Render(chinese_text_buffer')
           ELSE UNCHANGED <<chinese_text_buffer, chinese_text_box>>
        /\ IF translation.present /\ ~zh_raised
           THEN /\ target_language_text_buffer' =
                      gt_process_result(translation, target_language_text_buffer, subscript_ok)
                /\ target_text_box' =
                      IF gt_raises(translation, subscript_ok) THEN target_text_box
                      ELSE Render(target_language_text_buffer')
           ELSE UNCHANGED <<target_language_text_buffer, target_text_box>>
        /\ op' = [name |-> "update_text", transcription |-> asr_result,
                  translation |-> IF zh_raised THEN NoResult ELSE translation]
        /\ UNCHANGED <<program, ui_pc, langVars, svcVars, devVars, queueVars, thrVars>>

(***************************************************************************)
(* TranslationService: start, stop and the device                          *)
(***************************************************************************)
DeadPcs == {"done", "dead"}

\* Thread.is_alive() of worker t
is_alive(t) == workers[t].pc \notin DeadPcs

\* a thread as start() launches it; caller remembers who called start(), and
\* unknown_seen how many times the last except clause of asr_task has run
NewWorker(kind, caller) ==
    [kind |-> kind, pc |-> IF kind = "asr" THEN "outer" ELSE "setup",
     caller |-> caller, session |-> 0, retry_count |-> 0, unknown_seen |-> 0,
     buffer |-> "", parts |-> <<>>]

\* close_audio_resources: the stream and the PyAudio instance the service
\* refers to are closed and forgotten, under pyaudio_lock
close_audio_resources ==
    /\ open_streams' = open_streams \ {audio_stream}
    /\ audio_stream' = 0
    /\ mic' = 0

\* TranslationService.stop: the flag, the status, the device (closed twice,
\* the second time finds nothing); the worker threads are not joined
stop_body ==
    /\ is_running' = FALSE
    /\ last_status' = "stopped"
    /\ close_audio_resources
    /\ UNCHANGED workers

\* the try block of TranslationService.start: the flag, the status, the
\* recognition thread, and the synthesis thread when TTS is enabled and has
\* a key (else the warning)
start_threads(caller) ==
    /\ is_running' = TRUE
    /\ asr_thread' = Len(workers) + 1
    /\ IF enable_tts /\ cfg_tts_key
       THEN /\ workers' = workers \o <<NewWorker("asr", caller),
                                               NewWorker("tts", caller)>>
            /\ tts_thread' = Len(workers) + 2
            /\ last_status' = "started"
       ELSE /\ workers' = Append(workers, NewWorker("asr", caller))
            /\ tts_thread' = tts_thread
            /\ last_status' = IF enable_tts THEN "no_tts_key" ELSE "started"

\* start() without its test of the API key
start_body_ignoring_key(caller) ==
    IF is_running
    THEN UNCHANGED <<last_status, is_running, workers, asr_thread, tts_thread>>
    ELSE start_threads(caller)

\* start() without its test of is_running
start_body_ignoring_running(caller) ==
    IF ~api_key
    THEN /\ last_status' = "no_api_key"
         /\ UNCHANGED <<is_running, workers, asr_thread, tts_thread>>
    ELSE start_threads(caller)

\* TranslationService.start
start_body(caller) ==
    IF is_running \/ ~api_key
    THEN /\ last_status' = IF ~api_key THEN "no_api_key" ELSE last_status
         /\ UNCHANGED <<is_running, workers, asr_thread, tts_thread>>
    ELSE start_threads(caller)

start ==
    /\ program = "gummy"
    /\ ui_pc = "idle"
    /\ budget > 0
    /\ budget' = budget - 1
    /\ start_body("start")
    /\ op' = [name |-> "start", launched |-> ~is_running /\ api_key]
    /\ UNCHANGED <<program, winVars, ui_pc, langVars, api_key, enable_tts, cfg_tts_key,
                   tts_api_key, devVars, queueVars, sessions, tts_requests>>

stop ==
    /\ program = "gummy"
    /\ ui_pc = "idle"
    /\ budget > 0
    /\ budget' = budget - 1
    /\ stop_body
    /\ op' = [name |-> "stop"]
    /\ UNCHANGED <<program, winVars, ui_pc, langVars, api_key, enable_tts, cfg_tts_key,
                   tts_api_key, asr_thread, tts_thread, queueVars, sessions,
                   tts_requests>>

\* TranslationService.update_api_settings, the configuration being as it was
\* at construction: the attribute tts_api_key comes to exist
update_api_settings ==
    /\ program = "gummy"
    /\ ui_pc = "idle"
    /\ tts_api_key = "unset"
    /\ budget > 0
    /\ budget' = budget - 1
    /\ tts_api_key' = "set"
    /\ op' = [name |-> "update_api_settings"]
    /\ UNCHANGED <<program, winVars, ui_pc, langVars, is_running, api_key, enable_tts,
                   cfg_tts_key, asr_thread, tts_thread, last_status, devVars,
                   queueVars, thrVars>>

\* the threads check_and_restart looks at are alive
threads_alive ==
    /\ asr_thread # 0 => is_alive(asr_thread)
    /\ (tts_thread # 0 /\ enable_tts) => is_alive(tts_thread)

\* TranslationService.check_and_restart up to its sleep: nothing when the
\* service is not running or the threads live, else the status and stop()
check_and_restart ==
    /\ program = "gummy"
    /\ ui_pc = "idle"
    /\ budget > 0
    /\ budget' = budget - 1
    /\ IF is_running /\ ~threads_alive
       THEN /\ stop_body
            /\ ui_pc' = "cr_sleep"
       ELSE UNCHANGED <<is_running, last_status, devVars, workers, ui_pc>>
    /\ op' = [name |-> "check_and_restart", restarting |-> is_running /\ ~threads_alive]
    /\ UNCHANGED <<program, winVars, langVars, api_key, enable_tts, cfg_tts_key,
                   tts_api_key, asr_thread, tts_thread, queueVars, sessions,
                   tts_requests>>

\* check_and_restart after its sleep: start()
check_and_restart_start ==
    /\ ui_pc = "cr_sleep"
    /\ budget > 0
    /\ budget' = budget - 1
    /\ start_body("check_and_restart")
    /\ ui_pc' = "idle"
    /\ op' = [name |-> "check_and_restart_start", worker |-> asr_thread']
    /\ UNCHANGED <<program, winVars, langVars, api_key, enable_tts, cfg_tts_key,
                   tts_api_key, devVars, queueVars, sessions, tts_requests>>

(***************************************************************************)
(* apply_settings and set_languages                                        *)
(***************************************************************************)
ClearedBuffer == [lines |-> <<EmptyLine>>, maxlen |-> NoMaxlen]

\* a set_languages that tests the source language only
set_languages_accepts_source_only(source_lang, target_lang) ==
    source_lang \in SUPPORTED_LANGUAGES

\* set_languages: "if source_lang in ... and target_lang in ..."; False is
\* returned otherwise
set_languages_accepts(source_lang, target_lang) ==
    source_lang \in SUPPORTED_LANGUAGES /\ target_lang \in SUPPORTED_LANGUAGES

\* ModernFloatingSubtitleWindow.apply_settings, language part, when the
\* configured languages differ from the service's: set_languages stores the
\* new languages first; it then restarts a running service (the next two
\* actions), and apply_settings at last replaces both buffers by plain lists
apply_settings(source_lang, target_lang) ==
    /\ program = "gummy"
    /\ ui_pc = "idle"
    /\ budget > 0
    /\ budget' = budget - 1
    /\ source_language # source_lang \/ target_language # target_lang
    /\ IF set_languages_accepts(source_lang, target_lang)
       THEN /\ source_language' = source_lang
            /\ target_language' = target_lang
       ELSE UNCHANGED langVars
    /\ IF set_languages_accepts(source_lang, target_lang) /\ is_running
       THEN /\ ui_pc' = "sl_stop"
            /\ UNCHANGED winVars
       ELSE /\ ui_pc' = "idle"
            /\ chinese_text_buffer' = ClearedBuffer
            /\ target_language_text_buffer' = ClearedBuffer
            /\ chinese_text_box' = ""
            /\ target_text_box' = ""
    /\ op' = [name |-> "apply_settings", was_running |-> is_running,
              source_lang |-> source_lang, target_lang |-> target_lang,
              returned |-> set_languages_accepts(source_lang, target_lang)]
    /\ UNCHANGED <<program, svcVars, devVars, queueVars, thrVars>>

\* set_languages, the service having been running: stop()
set_languages_stop ==
    /\ ui_pc = "sl_stop"
    /\ stop_body
    /\ ui_pc' = "sl_sleep"
    /\ op' = [name |-> "set_languages_stop"]
    /\ UNCHANGED <<program, winVars, langVars, api_key, enable_tts, cfg_tts_key,
                   tts_api_key, asr_thread, tts_thread, queueVars, sessions,
                   tts_requests, budget>>

\* set_languages after its sleep: start(); then the rest of apply_settings
set_languages_start ==
    /\ ui_pc = "sl_sleep"
    /\ budget > 0
    /\ budget' = budget - 1
    /\ start_body("set_languages")
    /\ ui_pc' = "idle"
    /\ chinese_text_buffer' = ClearedBuffer
    /\ target_language_text_buffer' = ClearedBuffer
    /\ chinese_text_box' = ""
    /\ target_text_box' = ""
    /\ op' = [name |-> "set_languages_start", worker |-> asr_thread']
    /\ UNCHANGED <<program, langVars, api_key, enable_tts, cfg_tts_key, tts_api_key,
                   devVars, queueVars, sessions, tts_requests>>

(***************************************************************************)
(* The recognition session's callbacks                                     *)
(***************************************************************************)
NewSentence == [prev |-> <<>>, ok |-> TRUE, emitted |-> ""]

\* a Callback that takes its cursors from the session made before it
NewSessionResumed(lang, owner) ==
    LET last == IF sessions = <<>> THEN [sentence_ptr |-> 0, zh_word_ptr |-> 0,
                                         tg_word_ptr |-> 0, sentence |-> NewSentence]
                ELSE sessions[Len(sessions)]
    IN  [state |-> "open", target |-> lang, owner |-> owner,
         sentence_ptr |-> last.sentence_ptr, zh_word_ptr |-> last.zh_word_ptr,
         tg_word_ptr |-> last.tg_word_ptr, sentence |-> last.sentence]

\* a Callback and its translator, as asr_task makes them
NewSession(lang, owner) ==
    [state |-> "open", target |-> lang, owner |-> owner,
     sentence_ptr |-> 0, zh_word_ptr |-> 0, tg_word_ptr |-> 0,
     sentence |-> NewSentence]

\* Callback.on_open of session s, which the recognizer calls inside
\* translator.start(): a new PyAudio instance and capture stream replace
\* whatever the service referred to, under pyaudio_lock
on_open(s) ==
    /\ mic' = s
    /\ audio_stream' = s
    /\ open_streams' = open_streams \cup {s}

\* body of Callback.on_close: the stream the service refers to now, if any,
\* is closed and forgotten, and so is the PyAudio instance
on_close_body ==
    /\ open_streams' = open_streams \ {audio_stream}
    /\ audio_stream' = 0
    /\ mic' = 0

\* Callback.on_close, called by the recognizer when the service ends the
\* session on its own: the stream the service refers to now is closed
on_close(s) ==
    /\ sessions[s].state = "open"
    /\ budget > 0
    /\ budget' = budget - 1
    /\ sessions' = [sessions EXCEPT ![s].state = "closed"]
    /\ on_close_body
    /\ op' = [name |-> "on_close", session |-> s]
    /\ UNCHANGED <<program, winVars, ui_pc, langVars, svcVars, queueVars, workers,
                   tts_requests>>

\* an item of asr_fixed_words; from_fixed remembers the fixed flag of the
\* word the item was made from
Item(word, is_sentence_end, from_fixed) ==
    [word |-> word, is_sentence_end |-> is_sentence_end, from_fixed |-> from_fixed]

EndMarker == Item("", TRUE, FALSE)

RECURSIVE EmitFromAny(_, _, _)
\* the loop of on_event without its test of word.fixed
EmitFromAny(words, i, ptr) ==
    IF i > Len(words) THEN [items |-> <<>>, ptr |-> ptr]
    ELSE IF i - 1 >= ptr
         THEN LET rest == EmitFromAny(words, i + 1, ptr + 1)
              IN  [items |-> <<Item(words[i].text, FALSE, words[i].fixed)>> \o rest.items,
                   ptr |-> rest.ptr]
         ELSE EmitFromAny(words, i + 1, ptr)

RECURSIVE EmitFrom(_, _, _)
\* for i, word in enumerate(words): if word.fixed and i >= ptr: put; ptr += 1
\* from the i-th word (1-based) on: the items put and the cursor at the end
EmitFrom(words, i, ptr) ==
    IF i > Len(words) THEN [items |-> <<>>, ptr |-> ptr]
    ELSE IF words[i].fixed /\ i - 1 >= ptr
         THEN LET rest == EmitFrom(words, i + 1, ptr + 1)
              IN  [items |-> <<Item(words[i].text, FALSE, words[i].fixed)>> \o rest.items,
                   ptr |-> rest.ptr]
         ELSE EmitFrom(words, i + 1, ptr)

RECURSIVE JoinItems(_)
JoinItems(items) ==
    IF items = <<>> THEN "" ELSE Head(items).word \o JoinItems(Tail(items))

\* every word of prev that was fixed is still there, unrevised, in next
Monotone(prev, next) ==
    \A i \in 1..Len(prev) :
        prev[i].fixed => (i <= Len(next) /\ next[i] = prev[i])

\* an on_event that puts the sentence-end marker before the words of the result
on_event_marker_first(s, transcription_result, translation_result) ==
    LET cb      == sessions[s]
        lang    == IF program = "gummy" THEN LangCode(target_language) ELSE "zh"
        tl      == get_translation(translation_result, lang)
        queues  == (program = "gummy_translator" \/ enable_tts) /\ tl.present
        zh      == IF program = "gummy_translator" /\ transcription_result.present
                   THEN EmitFrom(transcription_result.words, 1, cb.zh_word_ptr).ptr
                   ELSE cb.zh_word_ptr
        emit    == EmitFrom(tl.words, 1, cb.tg_word_ptr)
        ends    == queues /\ tl.is_sentence_end
        put     == IF ~queues THEN <<>>
                   ELSE (IF ends THEN <<EndMarker>> ELSE <<>>) \o emit.items
        emitted == cb.sentence.emitted \o (IF queues THEN JoinItems(emit.items) ELSE "")
        mono    == cb.sentence.ok /\ (queues => Monotone(cb.sentence.prev, tl.words))
    IN  /\ cb.state = "open"
        /\ budget > 0
        /\ budget' = budget - 1
        /\ wx_text_queue' = Append(wx_text_queue, <<transcription_result, translation_result>>)
        /\ asr_fixed_words' = asr_fixed_words \o put
        /\ sessions' = [sessions EXCEPT ![s] =
              [cb EXCEPT !.zh_word_ptr = IF ends THEN 0 ELSE zh,
                         !.tg_word_ptr = IF ends THEN 0
                                         ELSE IF queues THEN emit.ptr ELSE @,
                         !.sentence_ptr = IF ends THEN @ + 1 ELSE @,
                         !.sentence = IF ends THEN NewSentence
                                      ELSE IF queues
                                           THEN [prev |-> tl.words, ok |-> mono,
                                                 emitted |-> emitted]
                                           ELSE @]]
        /\ op' = [name |-> "on_event", session |-> s, translation |-> tl,
                  queued |-> queues, put |-> put, monotone |-> mono,
                  emitted |-> emitted,
                  read_language |-> IF program = "gummy" /\ enable_tts
                                       /\ translation_result.present
                                    THEN lang ELSE "none"]
        /\ UNCHANGED <<program, winVars, ui_pc, langVars, svcVars, devVars, workers,
                       tts_requests>>

\* Callback.on_event of session s. gummy.py queues the pair, then, with TTS
\* enabled, the newly fixed words of the translation for the service's
\* current target language; gummy_translator.py also moves zh_word_ptr,
\* looks for the translation 'zh' and does not ask whether TTS is enabled
on_event(s, transcription_result, translation_result) ==
    LET cb      == sessions[s]
        lang    == IF program = "gummy" THEN LangCode(target_language) ELSE "zh"
        tl      == get_translation(translation_result, lang)
        queues  == (program = "gummy_translator" \/ enable_tts) /\ tl.present
        zh      == IF program = "gummy_translator" /\ transcription_result.present
                   THEN EmitFrom(transcription_result.words, 1, cb.zh_word_ptr).ptr
                   ELSE cb.zh_word_ptr
        emit    == EmitFrom(tl.words, 1, cb.tg_word_ptr)
        ends    == queues /\ tl.is_sentence_end
        put     == IF ~queues THEN <<>>
                   ELSE emit.items \o (IF ends THEN <<EndMarker>> ELSE <<>>)
        emitted == cb.sentence.emitted \o (IF queues THEN JoinItems(emit.items) ELSE "")
        mono    == cb.sentence.ok /\ (queues => Monotone(cb.sentence.prev, tl.words))
    IN  /\ cb.state = "open"
        /\ budget > 0
        /\ budget' = budget - 1
        /\ wx_text_queue' = Append(wx_text_queue, <<transcription_result, translation_result>>)
        /\ asr_fixed_words' = asr_fixed_words \o put
        /\ sessions' = [sessions EXCEPT ![s] =
              [cb EXCEPT !.zh_word_ptr = IF ends THEN 0 ELSE zh,
                         !.tg_word_ptr = IF ends THEN 0
                                         ELSE IF queues THEN emit.ptr ELSE @,
                         !.sentence_ptr = IF ends THEN @ + 1 ELSE @,
                         !.sentence = IF ends THEN NewSentence
                                      ELSE IF queues
                                           THEN [prev |-> tl.words, ok |-> mono,
                                                 emitted |-> emitted]
                                           ELSE @]]
        /\ op' = [name |-> "on_event", session |-> s, translation |-> tl,
                  queued |-> queues, put |-> put, monotone |-> mono,
                  emitted |-> emitted,
                  read_language |-> IF program = "gummy" /\ enable_tts
                                       /\ translation_result.present
                                    THEN lang ELSE "none"]
        /\ UNCHANGED <<program, winVars, ui_pc, langVars, svcVars, devVars, workers,
                       tts_requests>>

(***************************************************************************)
(* The recognition worker: asr_task                                        *)
(***************************************************************************)
SetWorker(t, w) == [workers EXCEPT ![t] = w]

\* head of the outer loop: the thread ends when is_running is false, else it
\* makes a Callback and a translator for the current target language and
\* starts it, which opens the device (on_open)
asr_task_outer(t) ==
    LET w == workers[t]
    IN  /\ w.kind = "asr"
        /\ w.pc = "outer"
        /\ IF ~is_running
           THEN /\ workers' = SetWorker(t, [w EXCEPT !.pc = "done"])
                /\ UNCHANGED <<sessions, devVars>>
           ELSE /\ sessions' = Append(sessions, NewSession(LangCode(target_language), t))
                /\ workers' = SetWorker(t, [w EXCEPT !.pc = "inner",
                                                     !.session = Len(sessions) + 1])
                /\ on_open(Len(sessions) + 1)
        /\ UNCHANGED <<program, winVars, ui_pc, langVars, svcVars, queueVars,
                       tts_requests, budget, op>>

\* the except clauses of asr_task: which of them count the failure, and
\* which report it to the window
Counted(err) == err # "auth"

Reported(err, count) ==
    CASE err = "network" -> "network_problem"
      [] err = "device"  -> "audio_device_problem"
      [] err = "auth"    -> "invalid_api_key"
      [] err = "other"   -> IF count >= max_retries THEN "service_error" ELSE last_status

\* whether the handler calls ui.post_status_update
Posts(err, count) == err # "other" \/ count >= max_retries

\* seconds the handler sleeps before the outer loop goes round again
Wait(err, count) ==
    CASE err = "network" -> 2
      [] err = "device"  -> 1
      [] err = "auth"    -> 5
      [] err = "other"   -> IF count >= max_retries THEN 5 ELSE 1

\* translator.start() raises: the handler counts, reports, sleeps, and the
\* outer loop goes round again
asr_task_start_fails(t, err) ==
    LET w     == workers[t]
        count == IF Counted(err) THEN w.retry_count + 1 ELSE w.retry_count
    IN  /\ w.kind = "asr"
        /\ w.pc = "outer"
        /\ is_running
        /\ budget > 0
        /\ budget' = budget - 1
        /\ count <= MaxRetryCount
        /\ workers' = SetWorker(t, [w EXCEPT !.retry_count = count,
                                             !.unknown_seen = IF err = "other" THEN @ + 1 ELSE @])
        /\ last_status' = Reported(err, count)
        /\ op' = [name |-> "asr_task_start_fails", worker |-> t, err |-> err,
                  wait |-> Wait(err, count), posted |-> Posts(err, count)]
        /\ UNCHANGED <<program, winVars, ui_pc, langVars, is_running, api_key, enable_tts,
                       cfg_tts_key, tts_api_key, asr_thread, tts_thread, devVars,
                       queueVars, sessions, tts_requests>>

\* one round of the inner loop: leave it when is_running is false; with a
\* stream to refer to, read a frame and send it (whatever that raises is
\* logged); else sleep
asr_task_inner(t) ==
    LET w == workers[t]
    IN  /\ w.kind = "asr"
        /\ w.pc = "inner"
        /\ workers' = SetWorker(t, [w EXCEPT !.pc = IF ~is_running THEN "stop" ELSE "inner"])
        /\ UNCHANGED <<program, winVars, ui_pc, langVars, svcVars, devVars, queueVars,
                       sessions, tts_requests, budget, op>>

\* translator.stop() after the inner loop: the recognizer ends the session
\* and calls on_close; on a session that has already ended it raises, which
\* the last except clause counts
asr_task_stop(t) ==
    LET w     == workers[t]
        s     == w.session
        count == w.retry_count + 1
    IN  /\ w.kind = "asr"
        /\ w.pc = "stop"
        /\ IF sessions[s].state = "closed"
           THEN /\ count <= MaxRetryCount
                /\ workers' = SetWorker(t, [w EXCEPT !.pc = "outer", !.retry_count = count,
                                                     !.unknown_seen = @ + 1])
                /\ last_status' = Reported("other", count)
                /\ UNCHANGED <<sessions, devVars>>
           ELSE /\ workers' = SetWorker(t, [w EXCEPT !.pc = "outer", !.retry_count = 0])
                /\ sessions' = [sessions EXCEPT ![s].state = "closed"]
                /\ on_close_body
                /\ UNCHANGED last_status
        /\ UNCHANGED <<program, winVars, ui_pc, langVars, is_running, api_key, enable_tts,
                       cfg_tts_key, tts_api_key, asr_thread, tts_thread, queueVars,
                       tts_requests, budget, op>>

\* a worker thread ends on an error nothing catches, or is killed
thread_dies(t) ==
    /\ workers[t].kind = "asr"
    /\ is_alive(t)
    /\ budget > 0
    /\ budget' = budget - 1
    /\ workers' = SetWorker(t, [workers[t] EXCEPT !.pc = "dead"])
    /\ op' = [name |-> "thread_dies", worker |-> t]
    /\ UNCHANGED <<program, winVars, ui_pc, langVars, svcVars, devVars, queueVars,
                   sessions, tts_requests>>

(***************************************************************************)
(* The synthesis worker: tts_task / cosyvoiceTtsTask                       *)
(***************************************************************************)
BREATH == "[breath][breath][breath]"

ClausePunctuation == {";", ",", "."}

\* tts_task before its loop: the headers read self.tts_api_key, an attribute
\* only update_api_settings creates; without it the thread ends here
tts_task_setup(t) ==
    LET w == workers[t]
    IN  /\ w.kind = "tts"
        /\ w.pc = "setup"
        /\ workers' = SetWorker(t, [w EXCEPT !.pc = IF tts_api_key = "unset" THEN "dead"
                                                    ELSE "loop"])
        /\ UNCHANGED <<program, winVars, ui_pc, langVars, svcVars, devVars, queueVars,
                       sessions, tts_requests, budget, op>>

\* gummy.py: while self.is_running
tts_task_exit(t) ==
    LET w == workers[t]
    IN  /\ program = "gummy"
        /\ w.kind = "tts"
        /\ w.pc = "loop"
        /\ ~is_running
        /\ workers' = SetWorker(t, [w EXCEPT !.pc = "done"])
        /\ UNCHANGED <<program, winVars, ui_pc, langVars, svcVars, devVars, queueVars,
                       sessions, tts_requests, budget, op>>

\* what a round adds to the text buffer: the item's word, followed by the
\* pause marker when the round flushes
Part(item, flush) ==
    [word |-> item.word, is_sentence_end |-> item.is_sentence_end,
     from_fixed |-> item.from_fixed, marked |-> flush]

RECURSIVE JoinParts(_)
JoinParts(parts) ==
    IF parts = <<>> THEN ""
    ELSE Head(parts).word \o (IF Head(parts).marked THEN BREATH ELSE "")
         \o JoinParts(Tail(parts))

\* the flush test with its length bound dropped
ShouldFlushAnyLength(item, buffer) ==
    item.is_sentence_end \/ item.word \in ClausePunctuation

\* is_sentence_end or ((word in ['、', '，', '。']) and len(buffer) > 15)
ShouldFlush(item, buffer) ==
    item.is_sentence_end \/ (item.word \in ClausePunctuation /\ Len(buffer) > FLUSH_LENGTH)

\* one round of the loop that takes an item from asr_fixed_words. outcome:
\* "ok" (status 200, played), "http_error" (other status), "exception"
\* (the request or the playback raised: buffer is not cleared)
tts_task(t, outcome) ==
    LET w      == workers[t]
        item   == Head(asr_fixed_words)
        flush  == ShouldFlush(item, w.buffer)
        buffer == w.buffer \o item.word \o (IF flush THEN BREATH ELSE "")
        parts  == Append(w.parts, Part(item, flush))
        kept   == ~flush \/ outcome = "exception"
    IN  /\ w.kind = "tts"
        /\ w.pc = "loop"
        /\ program = "gummy" => is_running
        /\ enable_tts
        /\ asr_fixed_words # <<>>
        /\ flush \/ outcome = "ok"
        /\ asr_fixed_words' = Tail(asr_fixed_words)
        /\ tts_requests' = IF flush
                           THEN Append(tts_requests, [input |-> buffer, parts |-> parts,
                                                      worker |-> t])
                           ELSE tts_requests
        /\ workers' = SetWorker(t, [w EXCEPT !.buffer = IF kept THEN buffer ELSE "",
                                             !.parts = IF kept THEN parts ELSE <<>>])
        /\ op' = [name |-> "tts_task", worker |-> t, item |-> item,
                  buffer_before |-> w.buffer, flushed |-> flush, outcome |-> outcome]
        /\ UNCHANGED <<program, winVars, ui_pc, langVars, svcVars, devVars, wx_text_queue,
                       sessions, budget>>

(***************************************************************************)
(* Inputs                                                                  *)
(***************************************************************************)
\* the results of one sentence as the service revises it
SentenceResults ==
    { Res(<<W("t", FALSE)>>, FALSE),
      Res(<<W("t", TRUE), W("h", FALSE)>>, FALSE),
      Res(<<W("t", TRUE), W("h", TRUE)>>, FALSE),
      Res(<<W("t", TRUE), W("h", TRUE), W(".", TRUE)>>, TRUE),
      Res(<<W("h", TRUE), W("t", FALSE), W(",", TRUE)>>, TRUE) }

StashResults ==
    { ResStash(<<W("t", TRUE), W("h", FALSE)>>, FALSE, <<W("h", TRUE)>>),
      ResStash(<<W("t", TRUE), W(".", TRUE)>>, TRUE, <<W("h", FALSE)>>),
      ResStash(<<W("t", TRUE)>>, FALSE, <<>>) }

\* a closed line as an earlier sentence left it
ClosedLine(i) ==
    CASE i % 3 = 0 -> <<"th.", "">>
      [] i % 3 = 1 -> <<"h,", "t">>
      [] OTHER     -> <<"t.", "">>

\* a buffer of n lines: n - 1 closed lines and the open tail
Prefilled(n, maxlen) ==
    [lines |-> [i \in 1..n |-> IF i = n THEN EmptyLine ELSE ClosedLine(i)],
     maxlen |-> maxlen]

PrefillSizes == {1, MAX_BUFFER_SIZE - 1, MAX_BUFFER_SIZE}

\* TranslationService.__init__ with TTS off in the configuration, and the
\* module globals of gummy_translator.py: nothing started, nothing queued
ServiceNotStarted ==
    /\ ui_pc = "idle"
    /\ is_running = FALSE
    /\ api_key = TRUE
    /\ enable_tts = FALSE
    /\ cfg_tts_key = FALSE
    /\ tts_api_key = "unset"
    /\ asr_thread = 0
    /\ tts_thread = 0
    /\ last_status = ""
    /\ mic = 0
    /\ audio_stream = 0
    /\ open_streams = {}
    /\ wx_text_queue = <<>>
    /\ asr_fixed_words = <<>>
    /\ workers = <<>>
    /\ sessions = <<>>
    /\ tts_requests = <<>>

(***************************************************************************)
(* The reconciler on its own: update_text and apply_settings applied to    *)
(* buffers as earlier sentences left them                                  *)
(***************************************************************************)
InitReconciler ==
    /\ program \in {"gummy", "gummy_translator"}
    /\ \E n \in PrefillSizes :
          /\ chinese_text_buffer =
                Prefilled(n, IF program = "gummy" THEN MAX_BUFFER_SIZE ELSE NoMaxlen)
          /\ target_language_text_buffer =
                Prefilled(n, IF program = "gummy" THEN MAX_BUFFER_SIZE ELSE NoMaxlen)
    /\ chinese_text_box = ""
    /\ target_text_box = ""
    /\ source_language = "zh-CN"
    /\ target_language = IF program = "gummy" THEN "en-US" ELSE "zh"
    /\ ServiceNotStarted
    /\ budget = MaxEvents
    /\ op = [name |-> "init"]

NextReconciler ==
    \/ \E tr \in SentenceResults \cup {NoResult},
          tl \in {TranslationFor(LangCode(l), r) :
                     l \in {"en-US", "ja-JP"}, r \in SentenceResults} \cup {NoResult} :
          update_text(tr, tl)
    \/ \E tr \in SentenceResults \cup StashResults \cup {NoResult},
          tl \in {TranslationFor("zh", r) : r \in SentenceResults \cup StashResults}
                 \cup {NoResult},
          ok \in BOOLEAN :
          gt_update_text(tr, tl, ok)
    \/ \E s \in {"zh-CN"}, t \in {"en-US", "ja-JP"} : apply_settings(s, t)

SpecReconciler == InitReconciler /\ [][NextReconciler]_vars

(***************************************************************************)
(* The window from its construction, fed whole sentences: long runs that   *)
(* fill the buffers                                                        *)
(***************************************************************************)
InitWindow ==
    /\ program = "gummy"
    /\ chinese_text_buffer = [lines |-> <<EmptyLine>>, maxlen |-> MAX_BUFFER_SIZE]
    /\ target_language_text_buffer = [lines |-> <<EmptyLine>>, maxlen |-> MAX_BUFFER_SIZE]
    /\ chinese_text_box = ""
    /\ target_text_box = ""
    /\ source_language = "zh-CN"
    /\ target_language = "en-US"
    /\ ServiceNotStarted
    /\ budget = MaxSentences
    /\ op = [name |-> "init"]

WholeSentence == Res(<<W("t", TRUE), W("h", TRUE), W(".", TRUE)>>, TRUE)

NextCapacity ==
    \/ \E tr \in {WholeSentence, NoResult},
          tl \in {TranslationFor(LangCode(target_language), WholeSentence), NoResult} :
          update_text(tr, tl)
    \/ \E t \in {"en-US", "ja-JP"} : apply_settings("zh-CN", t)

SpecCapacity == InitWindow /\ [][NextCapacity]_vars

(***************************************************************************)
(* The words pipeline: on_event feeding asr_fixed_words, the synthesis     *)
(* worker consuming it. The service is running, its session open, TTS      *)
(* switched on and the synthesis worker in its loop.                       *)
(***************************************************************************)
LongWord == "tttttttt"

\* target-language results of a sentence; the fourth fixes the third word
\* while the second is still open
WordResults ==
    { Res(<<W("t", FALSE)>>, FALSE),
      Res(<<W("t", TRUE), W("h", FALSE)>>, FALSE),
      Res(<<W("t", TRUE), W("h", TRUE)>>, FALSE),
      Res(<<W("t", TRUE), W("h", FALSE), W(".", TRUE)>>, FALSE),
      Res(<<W("t", TRUE), W("h", TRUE), W(".", TRUE)>>, TRUE),
      Res(<<W(LongWord, TRUE), W(",", TRUE), W("h", FALSE)>>, FALSE),
      Res(<<W(LongWord, TRUE), W(",", TRUE), W(LongWord, TRUE), W(";", TRUE),
            W("t", FALSE)>>, FALSE),
      Res(<<W(LongWord, TRUE), W(",", TRUE), W(LongWord, TRUE), W(";", TRUE),
            W("t", TRUE), W(".", TRUE)>>, TRUE) }

InitPipeline ==
    /\ program \in {"gummy", "gummy_translator"}
    /\ chinese_text_buffer =
          [lines |-> <<EmptyLine>>,
           maxlen |-> IF program = "gummy" THEN MAX_BUFFER_SIZE ELSE NoMaxlen]
    /\ target_language_text_buffer = chinese_text_buffer
    /\ chinese_text_box = ""
    /\ target_text_box = ""
    /\ ui_pc = "idle"
    /\ source_language = IF program = "gummy" THEN "zh-CN" ELSE "en-US"
    /\ target_language = IF program = "gummy" THEN "en-US" ELSE "zh"
    /\ is_running = TRUE
    /\ api_key = TRUE
    /\ enable_tts = TRUE
    /\ cfg_tts_key = TRUE
    /\ tts_api_key = "set"
    /\ asr_thread = 1
    /\ tts_thread = 2
    /\ last_status = "started"
    /\ mic = 1
    /\ audio_stream = 1
    /\ open_streams = {1}
    /\ wx_text_queue = <<>>
    /\ asr_fixed_words = <<>>
    /\ workers = << [NewWorker("asr", "OnInit") EXCEPT !.pc = "inner", !.session = 1],
                    [NewWorker("tts", "OnInit") EXCEPT !.pc = "loop"] >>
    /\ sessions = << NewSession(LangCode(target_language), 1) >>
    /\ tts_requests = <<>>
    /\ budget = MaxWordEvents
    /\ op = [name |-> "init"]

NextPipeline ==
    \/ \E r \in WordResults :
          on_event(1, NoResult, TranslationFor(LangCode(target_language), r))
    \/ \E outcome \in {"ok", "http_error", "exception"} : tts_task(2, outcome)

SpecPipeline == InitPipeline /\ [][NextPipeline]_vars

(***************************************************************************)
(* The service of gummy.py from its construction: the window's calls, the  *)
(* worker threads and the recognizer's callbacks, interleaved              *)
(***************************************************************************)
\* TranslationApp.OnInit: the window, the service, and start() on it, an
\* API key being configured
InitService ==
    /\ program = "gummy"
    /\ chinese_text_buffer = [lines |-> <<EmptyLine>>, maxlen |-> MAX_BUFFER_SIZE]
    /\ target_language_text_buffer = [lines |-> <<EmptyLine>>, maxlen |-> MAX_BUFFER_SIZE]
    /\ chinese_text_box = ""
    /\ target_text_box = ""
    /\ ui_pc = "idle"
    /\ source_language = "zh-CN"
    /\ target_language = "en-US"
    /\ is_running = TRUE
    /\ api_key = TRUE
    /\ enable_tts \in BOOLEAN
    /\ cfg_tts_key = enable_tts
    /\ tts_api_key = "unset"
    /\ asr_thread = 1
    /\ tts_thread = IF enable_tts THEN 2 ELSE 0
    /\ last_status = "started"
    /\ mic = 0
    /\ audio_stream = 0
    /\ open_streams = {}
    /\ wx_text_queue = <<>>
    /\ asr_fixed_words = <<>>
    /\ workers = IF enable_tts THEN <<NewWorker("asr", "OnInit"), NewWorker("tts", "OnInit")>>
                 ELSE <<NewWorker("asr", "OnInit")>>
    /\ sessions = <<>>
    /\ tts_requests = <<>>
    /\ budget = MaxServiceEvents
    /\ op = [name |-> "init"]

ServiceResult == Res(<<W("t", TRUE), W(".", TRUE)>>, TRUE)

NextService ==
    \/ start
    \/ stop
    \/ update_api_settings
    \/ check_and_restart
    \/ check_and_restart_start
    \/ apply_settings("zh-CN", IF target_language = "en-US" THEN "ja-JP" ELSE "en-US")
    \/ set_languages_stop
    \/ set_languages_start
    \/ \E t \in DOMAIN workers : asr_task_outer(t)
    \/ \E t \in DOMAIN workers, err \in {"network", "device", "auth", "other"} :
          asr_task_start_fails(t, err)
    \/ \E t \in DOMAIN workers : asr_task_inner(t)
    \/ \E t \in DOMAIN workers : asr_task_stop(t)
    \/ \E t \in DOMAIN workers : thread_dies(t)
    \/ \E t \in DOMAIN workers : tts_task_setup(t)
    \/ \E t \in DOMAIN workers : tts_task_exit(t)
    \/ \E t \in DOMAIN workers : tts_task(t, "ok")
    \/ \E s \in DOMAIN sessions : on_close(s)
    \/ \E s \in DOMAIN sessions :
          on_event(s, NoResult, TranslationFor(sessions[s].target, ServiceResult))

SpecService == InitService /\ [][NextService]_vars

(***************************************************************************)
(* The service from its construction: start, stop, the health check and    *)
(* the worker loops, with or without an API key in the configuration       *)
(***************************************************************************)
MaxSupervisorCalls == 4

\* the state TranslationService.__init__ leaves: not running, no thread
InitSupervisor ==
    /\ program = "gummy"
    /\ chinese_text_buffer = [lines |-> <<EmptyLine>>, maxlen |-> MAX_BUFFER_SIZE]
    /\ target_language_text_buffer = [lines |-> <<EmptyLine>>, maxlen |-> MAX_BUFFER_SIZE]
    /\ chinese_text_box = ""
    /\ target_text_box = ""
    /\ ui_pc = "idle"
    /\ source_language = "zh-CN"
    /\ target_language = "en-US"
    /\ is_running = FALSE
    /\ api_key \in BOOLEAN
    /\ enable_tts \in BOOLEAN
    /\ cfg_tts_key \in BOOLEAN
    /\ tts_api_key = "unset"
    /\ asr_thread = 0
    /\ tts_thread = 0
    /\ last_status = "constructed"
    /\ mic = 0
    /\ audio_stream = 0
    /\ open_streams = {}
    /\ wx_text_queue = <<>>
    /\ asr_fixed_words = <<>>
    /\ workers = <<>>
    /\ sessions = <<>>
    /\ tts_requests = <<>>
    /\ budget = MaxSupervisorCalls
    /\ op = [name |-> "init"]

NextSupervisor ==
    \/ start
    \/ stop
    \/ check_and_restart
    \/ check_and_restart_start
    \/ \E t \in DOMAIN workers : asr_task_outer(t)
    \/ \E t \in DOMAIN workers : asr_task_inner(t)
    \/ \E t \in DOMAIN workers : asr_task_stop(t)
    \/ \E t \in DOMAIN workers : thread_dies(t)
    \/ \E t \in DOMAIN workers : tts_task_setup(t)

SpecSupervisor == InitSupervisor /\ [][NextSupervisor]_vars

(***************************************************************************)
(* tts_task: playing the audio of a response                               *)
(*                                                                         *)
(* Bytes are a sequence of runs [lo, hi) of positions in the response      *)
(* body, adjacent runs merged, so that bytes lost, repeated or out of      *)
(* order show.                                                             *)
(***************************************************************************)
buffer_size == 4096
chunk_size == 1024
MaxChunks == 4

Run(lo, hi) == [lo |-> lo, hi |-> hi]

\* len(b)
RECURSIVE BLen(_)
BLen(b) == IF b = <<>> THEN 0 ELSE (Head(b).hi - Head(b).lo) + BLen(Tail(b))

\* a + b
BCat(a, b) ==
    IF a = <<>> THEN b
    ELSE IF b = <<>> THEN a
    ELSE IF a[Len(a)].hi = Head(b).lo
         THEN SubSeq(a, 1, Len(a) - 1) \o <<Run(a[Len(a)].lo, Head(b).hi)>> \o Tail(b)
         ELSE a \o b

\* b[:n]
RECURSIVE BTake(_, _)
BTake(b, n) ==
    IF n = 0 \/ b = <<>> THEN <<>>
    ELSE LET h == Head(b)
         IN  IF h.hi - h.lo <= n
             THEN BCat(<<h>>, BTake(Tail(b), n - (h.hi - h.lo)))
             ELSE <<Run(h.lo, h.lo + n)>>

\* b[n:]
RECURSIVE BDrop(_, _)
BDrop(b, n) ==
    IF n = 0 \/ b = <<>> THEN b
    ELSE LET h == Head(b)
         IN  IF h.hi - h.lo <= n
             THEN BDrop(Tail(b), n - (h.hi - h.lo))
             ELSE <<Run(h.lo + n, h.hi)>> \o Tail(b)

\* the writes made so far, concatenated
RECURSIVE BCatAll(_)
BCatAll(ws) == IF ws = <<>> THEN <<>> ELSE BCat(Head(ws), BCatAll(Tail(ws)))

\* while len(buffer2) >= buffer_size: write buffer2[:buffer_size] and keep
\* buffer2[buffer_size:]
RECURSIVE write_full_chunks(_)
write_full_chunks(p) ==
    IF BLen(p.buffer2) >= buffer_size
    THEN write_full_chunks([buffer2 |-> BDrop(p.buffer2, buffer_size),
                            writes  |-> Append(p.writes, BTake(p.buffer2, buffer_size))])
    ELSE p

\* the remainder is never written
write_remainder_never(p) == p.writes

\* if len(buffer2) > 0: stream.write(buffer2)
write_remainder(p) ==
    IF BLen(p.buffer2) > 0 THEN Append(p.writes, p.buffer2) ELSE p.writes

\* the synthesis thread with a 200 response in hand and the output stream
\* open: buffer2 = b"", nothing written, nothing received
PlayingWorker ==
    [kind |-> "tts", pc |-> "playing", caller |-> "OnInit", session |-> 0,
     retry_count |-> 0, unknown_seen |-> 0, buffer |-> "", parts |-> <<>>,
     buffer2 |-> <<>>, writes |-> <<>>, received |-> <<>>]

\* one round of the loop over response.iter_content: a chunk of size bytes
\* arrives; an empty one is skipped
iter_content(t, size) ==
    LET w     == workers[t]
        from  == BLen(w.received)
        chunk == IF size = 0 THEN <<>> ELSE <<Run(from, from + size)>>
        p     == IF chunk # <<>>
                 THEN write_full_chunks([buffer2 |-> BCat(w.buffer2, chunk),
                                         writes  |-> w.writes])
                 ELSE [buffer2 |-> w.buffer2, writes |-> w.writes]
    IN  /\ w.pc = "playing"
        /\ budget > 0
        /\ budget' = budget - 1
        /\ workers' = SetWorker(t, [w EXCEPT !.buffer2 = p.buffer2, !.writes = p.writes,
                                             !.received = BCat(w.received, chunk)])
        /\ op' = [name |-> "iter_content", worker |-> t, size |-> size]
        /\ UNCHANGED <<program, winVars, ui_pc, langVars, svcVars, devVars, queueVars,
                       sessions, tts_requests>>

\* the response has ended: what is left in buffer2 is written, and the
\* thread goes back to its loop with an empty text buffer
playback_end(t) ==
    LET w == workers[t]
    IN  /\ w.pc = "playing"
        /\ workers' = SetWorker(t, [w EXCEPT !.pc = "loop", !.buffer = "", !.parts = <<>>,
                                             !.writes = write_remainder(w)])
        /\ op' = [name |-> "playback_end", worker |-> t]
        /\ UNCHANGED <<program, winVars, ui_pc, langVars, svcVars, devVars, queueVars,
                       sessions, tts_requests, budget>>

\* sizes of the chunks a response arrives in
ChunkSizes == {0, 1, chunk_size, buffer_size - 1, buffer_size, 2 * buffer_size + 808}

InitPlayback ==
    /\ program \in {"gummy", "gummy_translator"}
    /\ chinese_text_buffer =
          [lines |-> <<EmptyLine>>,
           maxlen |-> IF program = "gummy" THEN MAX_BUFFER_SIZE ELSE NoMaxlen]
    /\ target_language_text_buffer = chinese_text_buffer
    /\ chinese_text_box = ""
    /\ target_text_box = ""
    /\ ui_pc = "idle"
    /\ source_language = IF program = "gummy" THEN "zh-CN" ELSE "en-US"
    /\ target_language = IF program = "gummy" THEN "en-US" ELSE "zh"
    /\ is_running = TRUE
    /\ api_key = TRUE
    /\ enable_tts = TRUE
    /\ cfg_tts_key = TRUE
    /\ tts_api_key = "set"
    /\ asr_thread = 1
    /\ tts_thread = 2
    /\ last_status = "started"
    /\ mic = 1
    /\ audio_stream = 1
    /\ open_streams = {1}
    /\ wx_text_queue = <<>>
    /\ asr_fixed_words = <<>>
    /\ workers = << [NewWorker("asr", "OnInit") EXCEPT !.pc = "inner", !.session = 1],
                    PlayingWorker >>
    /\ sessions = << NewSession(LangCode(target_language), 1) >>
    /\ tts_requests = <<>>
    /\ budget = MaxChunks
    /\ op = [name |-> "init"]

NextPlayback ==
    \/ \E size \in ChunkSizes : iter_content(2, size)
    \/ playback_end(2)

SpecPlayback == InitPlayback /\ [][NextPlayback]_vars

(***************************************************************************)
(* Shutdown: the worker loops step by step, scheduled fairly               *)
(***************************************************************************)
MaxShutdownCalls == 3

\* head of the outer loop, on its own: while self.is_running
asr_task_check(t) ==
    LET w == workers[t]
    IN  /\ w.kind = "asr"
        /\ w.pc = "outer"
        /\ workers' = SetWorker(t, [w EXCEPT !.pc = IF is_running THEN "starting" ELSE "done"])
        /\ UNCHANGED <<program, winVars, ui_pc, langVars, svcVars, devVars, queueVars,
                       sessions, tts_requests, budget, op>>

\* the body of the outer loop up to translator.start(), which opens the
\* device (on_open) whatever is_running has become since the loop's test
asr_task_start(t) ==
    LET w == workers[t]
    IN  /\ w.kind = "asr"
        /\ w.pc = "starting"
        /\ sessions' = Append(sessions, NewSession(LangCode(target_language), t))
        /\ workers' = SetWorker(t, [w EXCEPT !.pc = "inner", !.session = Len(sessions) + 1])
        /\ on_open(Len(sessions) + 1)
        /\ UNCHANGED <<program, winVars, ui_pc, langVars, svcVars, queueVars,
                       tts_requests, budget, op>>

\* the threads there can be: those of OnInit and two for every later start
WorkerIds == 1..(2 * MaxShutdownCalls + 2)

\* one step of thread t
WorkerStep(t) ==
    /\ t \in DOMAIN workers
    /\ \/ asr_task_check(t)
       \/ asr_task_start(t)
       \/ asr_task_inner(t)
       \/ asr_task_stop(t)
       \/ tts_task_setup(t)
       \/ tts_task_exit(t)

InitShutdown ==
    /\ program = "gummy"
    /\ chinese_text_buffer = [lines |-> <<EmptyLine>>, maxlen |-> MAX_BUFFER_SIZE]
    /\ target_language_text_buffer = [lines |-> <<EmptyLine>>, maxlen |-> MAX_BUFFER_SIZE]
    /\ chinese_text_box = ""
    /\ target_text_box = ""
    /\ ui_pc = "idle"
    /\ source_language = "zh-CN"
    /\ target_language = "en-US"
    /\ is_running = TRUE
    /\ api_key = TRUE
    /\ enable_tts \in BOOLEAN
    /\ cfg_tts_key = enable_tts
    /\ tts_api_key = "unset"
    /\ asr_thread = 1
    /\ tts_thread = IF enable_tts THEN 2 ELSE 0
    /\ last_status = "started"
    /\ mic = 0
    /\ audio_stream = 0
    /\ open_streams = {}
    /\ wx_text_queue = <<>>
    /\ asr_fixed_words = <<>>
    /\ workers = IF enable_tts THEN <<NewWorker("asr", "OnInit"), NewWorker("tts", "OnInit")>>
                 ELSE <<NewWorker("asr", "OnInit")>>
    /\ sessions = <<>>
    /\ tts_requests = <<>>
    /\ budget = MaxShutdownCalls
    /\ op = [name |-> "init"]

NextShutdown ==
    \/ stop
    \/ update_api_settings
    \/ apply_settings("zh-CN", IF target_language = "en-US" THEN "ja-JP" ELSE "en-US")
    \/ set_languages_stop
    \/ set_languages_start
    \/ \E t \in DOMAIN workers : asr_task_check(t)
    \/ \E t \in DOMAIN workers : asr_task_start(t)
    \/ \E t \in DOMAIN workers : asr_task_inner(t)
    \/ \E t \in DOMAIN workers : asr_task_stop(t)
    \/ \E t \in DOMAIN workers : tts_task_setup(t)
    \/ \E t \in DOMAIN workers : tts_task_exit(t)

\* every thread gets to run, and set_languages goes on after its sleep
SpecShutdown ==
    /\ InitShutdown
    /\ [][NextShutdown]_vars
    /\ \A t \in WorkerIds : WF_vars(WorkerStep(t))
    /\ WF_vars(set_languages_stop)
    /\ WF_vars(set_languages_start)

(***************************************************************************)
(* gummy_translator.py: switching speech on and off (Alt+S)                *)
(***************************************************************************)
MaxToggleEvents == 3

\* FloatingSubtitleWindow.on_key_press, Alt+S: enable_tts is inverted, and
\* when that enables speech the queue of fixed words is emptied
on_key_press ==
    /\ program = "gummy_translator"
    /\ budget > 0
    /\ budget' = budget - 1
    /\ enable_tts' = ~enable_tts
    /\ asr_fixed_words' = IF enable_tts' THEN <<>> ELSE asr_fixed_words
    /\ op' = [name |-> "on_key_press", enabled |-> enable_tts']
    /\ UNCHANGED <<program, winVars, ui_pc, langVars, is_running, api_key, cfg_tts_key,
                   tts_api_key, asr_thread, tts_thread, last_status, devVars,
                   wx_text_queue, thrVars>>

\* gummy_translator.py as it starts: speech disabled, the session open, the
\* synthesis thread in its loop
InitToggle ==
    /\ program = "gummy_translator"
    /\ chinese_text_buffer = [lines |-> <<EmptyLine>>, maxlen |-> NoMaxlen]
    /\ target_language_text_buffer = chinese_text_buffer
    /\ chinese_text_box = ""
    /\ target_text_box = ""
    /\ ui_pc = "idle"
    /\ source_language = "en-US"
    /\ target_language = "zh"
    /\ is_running = TRUE
    /\ api_key = TRUE
    /\ enable_tts = FALSE
    /\ cfg_tts_key = TRUE
    /\ tts_api_key = "set"
    /\ asr_thread = 1
    /\ tts_thread = 2
    /\ last_status = "started"
    /\ mic = 1
    /\ audio_stream = 1
    /\ open_streams = {1}
    /\ wx_text_queue = <<>>
    /\ asr_fixed_words = <<>>
    /\ workers = << [NewWorker("asr", "main") EXCEPT !.pc = "inner", !.session = 1],
                    [NewWorker("tts", "main") EXCEPT !.pc = "loop"] >>
    /\ sessions = << NewSession("zh", 1) >>
    /\ tts_requests = <<>>
    /\ budget = MaxToggleEvents
    /\ op = [name |-> "init"]

NextToggle ==
    \/ on_key_press
    \/ \E r \in WordResults : on_event(1, NoResult, TranslationFor("zh", r))
    \/ \E outcome \in {"ok", "http_error", "exception"} : tts_task(2, outcome)

SpecToggle == InitToggle /\ [][NextToggle]_vars

(***************************************************************************)
(* The window's timer: draining wx_text_queue                              *)
(***************************************************************************)
max_items == 10
MaxTimerEvents == 2

\* the loop of process_queue_safely: get_nowait up to n times, stopping at
\* queue.Empty
RECURSIVE get_nowait_loop(_, _, _)
get_nowait_loop(queue, n, processed) ==
    IF n = 0 \/ queue = <<>>
    THEN [processed |-> processed, queue |-> queue]
    ELSE get_nowait_loop(Tail(queue), n - 1, Append(processed, Head(queue)))

\* a drain that does not count
process_queue_unbounded(queue, n) == [processed |-> queue, queue |-> <<>>]

\* TranslationService.process_queue_safely(max_items)
process_queue_safely(queue, n) == get_nowait_loop(queue, n, <<>>)

\* the window after update_text(item[0], item[1])
update_text_window(win, item) ==
    LET trimmed     == TrimTarget(win.target)
        translation == get_translation(item[2], LangCode(target_language))
        chinese     == IF item[1].present THEN process_result(item[1], win.chinese)
                       ELSE win.chinese
        target      == IF translation.present THEN process_result(translation, trimmed)
                       ELSE trimmed
    IN  [chinese     |-> chinese,
         target      |-> target,
         chinese_box |-> IF item[1].present THEN Render(chinese) ELSE win.chinese_box,
         target_box  |-> IF translation.present THEN Render(target) ELSE win.target_box]

\* a timer handler that applies only the newest result of the batch
update_text_newest_only(win, updates) ==
    IF updates = <<>> THEN win
    ELSE update_text_window(win, updates[Len(updates)])

\* for ... in updates: self.update_text(...)
RECURSIVE update_text_all(_, _)
update_text_all(win, updates) ==
    IF updates = <<>> THEN win
    ELSE update_text_all(update_text_window(win, Head(updates)), Tail(updates))

\* ModernFloatingSubtitleWindow.on_timer
on_timer ==
    LET got == process_queue_safely(wx_text_queue, max_items)
        win == update_text_all([chinese |-> chinese_text_buffer,
                                target |-> target_language_text_buffer,
                                chinese_box |-> chinese_text_box,
                                target_box |-> target_text_box], got.processed)
    IN  /\ program = "gummy"
        /\ ui_pc = "idle"
        /\ budget > 0
        /\ budget' = budget - 1
        /\ wx_text_queue' = got.queue
        /\ chinese_text_buffer' = win.chinese
        /\ target_language_text_buffer' = win.target
        /\ chinese_text_box' = win.chinese_box
        /\ target_text_box' = win.target_box
        /\ op' = [name |-> "on_timer", updates |-> got.processed]
        /\ UNCHANGED <<program, ui_pc, langVars, svcVars, devVars, asr_fixed_words, thrVars>>

\* results that differ one from another, so that their order shows
Burst ==
    << "a", "b", "c", "d", "e", "f", "g", "i", "j", "k", "l", "m" >>

BurstItem(i) == << Res(<<W(Burst[i], TRUE)>>, i % 2 = 0), NoResult >>

\* the running service with a burst of results waiting in wx_text_queue
InitTimer ==
    /\ program = "gummy"
    /\ chinese_text_buffer = [lines |-> <<EmptyLine>>, maxlen |-> MAX_BUFFER_SIZE]
    /\ target_language_text_buffer = [lines |-> <<EmptyLine>>, maxlen |-> MAX_BUFFER_SIZE]
    /\ chinese_text_box = ""
    /\ target_text_box = ""
    /\ ui_pc = "idle"
    /\ source_language = "zh-CN"
    /\ target_language = "en-US"
    /\ is_running = TRUE
    /\ api_key = TRUE
    /\ enable_tts = FALSE
    /\ cfg_tts_key = FALSE
    /\ tts_api_key = "unset"
    /\ asr_thread = 1
    /\ tts_thread = 0
    /\ last_status = "started"
    /\ mic = 1
    /\ audio_stream = 1
    /\ open_streams = {1}
    /\ \E n \in 0..Len(Burst) : wx_text_queue = [i \in 1..n |-> BurstItem(i)]
    /\ asr_fixed_words = <<>>
    /\ workers = << [NewWorker("asr", "OnInit") EXCEPT !.pc = "inner", !.session = 1] >>
    /\ sessions = << NewSession(LangCode(target_language), 1) >>
    /\ tts_requests = <<>>
    /\ budget = MaxTimerEvents
    /\ op = [name |-> "init"]

NextTimer ==
    \/ on_timer
    \/ \E r \in SentenceResults : on_event(1, r, TranslationFor(LangCode(target_language), r))

SpecTimer == InitTimer /\ [][NextTimer]_vars

(***************************************************************************)
(* The capture device: the frame read of asr_task against the close paths, *)
(* and an open that fails                                                  *)
(***************************************************************************)
MaxDeviceCalls == 2

\* the inner loop's tests, on their own: while self.is_running, then
\* if self.audio_stream; no lock is taken
asr_task_test(t) ==
    LET w == workers[t]
    IN  /\ w.kind = "asr"
        /\ w.pc = "inner"
        /\ workers' = SetWorker(t, [w EXCEPT !.pc = IF ~is_running THEN "stop"
                                                    ELSE IF audio_stream # 0 THEN "read"
                                                    ELSE "inner"])
        /\ UNCHANGED <<program, winVars, ui_pc, langVars, svcVars, devVars, queueVars,
                       sessions, tts_requests, budget, op>>

\* self.audio_stream.read(...) and send_audio_frame, no lock taken: the
\* field is read again; whatever the read raises is logged and the loop
\* goes round
asr_task_read(t) ==
    LET w == workers[t]
    IN  /\ w.kind = "asr"
        /\ w.pc = "read"
        /\ workers' = SetWorker(t, [w EXCEPT !.pc = "inner"])
        /\ op' = [name |-> "asr_task_read", worker |-> t, handle |-> audio_stream,
                  raised |-> audio_stream \notin open_streams]
        /\ UNCHANGED <<program, winVars, ui_pc, langVars, svcVars, devVars, queueVars,
                       sessions, tts_requests, budget>>

\* translator.start() whose on_open fails at mic.open(): the PyAudio
\* instance has been stored, the stream has not; the exception ends the
\* try block of asr_task in its last except clause
asr_task_open_fails(t) ==
    LET w     == workers[t]
        count == w.retry_count + 1
    IN  /\ w.kind = "asr"
        /\ w.pc = "outer"
        /\ is_running
        /\ budget > 0
        /\ budget' = budget - 1
        /\ count <= MaxRetryCount
        /\ mic' = Len(sessions) + 1
        /\ sessions' = Append(sessions, [NewSession(LangCode(target_language), t)
                                            EXCEPT !.state = "closed"])
        /\ workers' = SetWorker(t, [w EXCEPT !.retry_count = count, !.unknown_seen = @ + 1])
        /\ last_status' = Reported("other", count)
        /\ op' = [name |-> "asr_task_open_fails", worker |-> t]
        /\ UNCHANGED <<program, winVars, ui_pc, langVars, is_running, api_key, enable_tts,
                       cfg_tts_key, tts_api_key, asr_thread, tts_thread, audio_stream,
                       open_streams, queueVars, tts_requests>>

\* the state SubtitleApp.OnInit leaves, TTS disabled
InitDevice ==
    /\ program = "gummy"
    /\ chinese_text_buffer = [lines |-> <<EmptyLine>>, maxlen |-> MAX_BUFFER_SIZE]
    /\ target_language_text_buffer = [lines |-> <<EmptyLine>>, maxlen |-> MAX_BUFFER_SIZE]
    /\ chinese_text_box = ""
    /\ target_text_box = ""
    /\ ui_pc = "idle"
    /\ source_language = "zh-CN"
    /\ target_language = "en-US"
    /\ is_running = TRUE
    /\ api_key = TRUE
    /\ enable_tts = FALSE
    /\ cfg_tts_key = FALSE
    /\ tts_api_key = "unset"
    /\ asr_thread = 1
    /\ tts_thread = 0
    /\ last_status = "started"
    /\ mic = 0
    /\ audio_stream = 0
    /\ open_streams = {}
    /\ wx_text_queue = <<>>
    /\ asr_fixed_words = <<>>
    /\ workers = <<NewWorker("asr", "OnInit")>>
    /\ sessions = <<>>
    /\ tts_requests = <<>>
    /\ budget = MaxDeviceCalls
    /\ op = [name |-> "init"]

NextDevice ==
    \/ stop
    \/ start
    \/ \E t \in DOMAIN workers : asr_task_outer(t)
    \/ \E t \in DOMAIN workers : asr_task_open_fails(t)
    \/ \E t \in DOMAIN workers : asr_task_test(t)
    \/ \E t \in DOMAIN workers : asr_task_read(t)
    \/ \E t \in DOMAIN workers : asr_task_stop(t)
    \/ \E s \in DOMAIN sessions : on_close(s)

SpecDevice == InitDevice /\ [][NextDevice]_vars

(***************************************************************************)
(* Retries of asr_task: failures of the session, and the sessions made     *)
(* after them                                                              *)
(***************************************************************************)
MaxRetryEvents == 4

\* results of a sentence in progress and of its end
RetryResults ==
    { Res(<<W("t", TRUE), W("h", FALSE)>>, FALSE),
      Res(<<W("t", TRUE), W("h", TRUE), W(".", TRUE)>>, TRUE) }

\* the state SubtitleApp.OnInit leaves, TTS enabled without a TTS key: the
\* recognition thread alone, its callbacks queueing fixed words
InitRetry ==
    /\ program = "gummy"
    /\ chinese_text_buffer = [lines |-> <<EmptyLine>>, maxlen |-> MAX_BUFFER_SIZE]
    /\ target_language_text_buffer = [lines |-> <<EmptyLine>>, maxlen |-> MAX_BUFFER_SIZE]
    /\ chinese_text_box = ""
    /\ target_text_box = ""
    /\ ui_pc = "idle"
    /\ source_language = "zh-CN"
    /\ target_language = "en-US"
    /\ is_running = TRUE
    /\ api_key = TRUE
    /\ enable_tts = TRUE
    /\ cfg_tts_key = FALSE
    /\ tts_api_key = "unset"
    /\ asr_thread = 1
    /\ tts_thread = 0
    /\ last_status = "no_tts_key"
    /\ mic = 0
    /\ audio_stream = 0
    /\ open_streams = {}
    /\ wx_text_queue = <<>>
    /\ asr_fixed_words = <<>>
    /\ workers = <<NewWorker("asr", "OnInit")>>
    /\ sessions = <<>>
    /\ tts_requests = <<>>
    /\ budget = MaxRetryEvents
    /\ op = [name |-> "init"]

NextRetry ==
    \/ stop
    \/ start
    \/ \E t \in DOMAIN workers : asr_task_outer(t)
    \/ \E t \in DOMAIN workers, err \in {"network", "device", "auth", "other"} :
          asr_task_start_fails(t, err)
    \/ \E t \in DOMAIN workers : asr_task_inner(t)
    \/ \E t \in DOMAIN workers : asr_task_stop(t)
    \/ \E s \in DOMAIN sessions : on_close(s)
    \/ \E s \in DOMAIN sessions, r \in RetryResults :
          on_event(s, NoResult, TranslationFor(sessions[s].target, r))

SpecRetry == InitRetry /\ [][NextRetry]_vars

(***************************************************************************)
(* Claims                                                                  *)
(***************************************************************************)
\* one result r took the buffer from old to new; the buffer held fewer than
\* N lines: a result that does not end the sentence keeps the number of
\* lines, the one that ends it adds exactly one line, and the line it
\* closed holds the fixed text of r
SentenceStep(r, old, new) ==
    Len(old.lines) < MAX_BUFFER_SIZE =>
        IF r.is_sentence_end
        THEN /\ Len(new.lines) = Len(old.lines) + 1
             /\ new.lines[Len(old.lines)][1] = fixed_text(r.words)
             /\ SubSeq(new.lines, 1, Len(old.lines) - 1)
                   = SubSeq(old.lines, 1, Len(old.lines) - 1)
        ELSE Len(new.lines) = Len(old.lines)

\* C1: over the results of one sentence, of which only the last ends it,
\* applied to a buffer of fewer than N lines, the buffer gains exactly one
\* line and the closed line's fixed part is the concatenation of the fixed
\* words of the final result, whatever the tail held before (both programs,
\* both tracks).
C1_SentenceAddsOneLine ==
    [][ op'.name = "update_text" =>
          /\ op'.transcription.present =>
                SentenceStep(op'.transcription, chinese_text_buffer, chinese_text_buffer')
          /\ op'.translation.present =>
                SentenceStep(op'.translation, target_language_text_buffer,
                             target_language_text_buffer') ]_vars

\* C1 witness: a sentence-ending result was applied after an earlier result
\* of the sentence, to a buffer of one line, and closed the line "th."
C1_Witness ==
    /\ op.name = "update_text"
    /\ budget = 0
    /\ op.transcription.present
    /\ op.transcription.is_sentence_end
    /\ chinese_text_buffer.lines = <<<<"th.", "">>, EmptyLine>>

\* C2 as claimed: applying the same sentence-ending result a second time
\* leaves the transcript buffer as it was after the first time.
C2_ReplayIsIdempotent ==
    [][ ( /\ program = "gummy"
          /\ op.name = "update_text"
          /\ op' = op
          /\ op.transcription.present
          /\ op.transcription.is_sentence_end )
        => chinese_text_buffer' = chinese_text_buffer ]_vars

\* C2 as amended: applying the same sentence-ending result a second time
\* closes a second line with the same content: the two lines before the
\* tail both hold the result's fixed and unfixed text, the tail is empty,
\* and a buffer of fewer than N lines has gained one more line.
C2_ReplayDuplicatesLine ==
    [][ ( /\ program = "gummy"
          /\ op.name = "update_text"
          /\ op' = op
          /\ op.transcription.present
          /\ op.transcription.is_sentence_end )
        => LET r   == op.transcription
               old == chinese_text_buffer.lines
               new == chinese_text_buffer'.lines
               n   == Len(new)
           IN  /\ n >= 3
               /\ new[n] = EmptyLine
               /\ new[n - 1] = <<fixed_text(r.words), unfixed_text(r.words)>>
               /\ new[n - 2] = new[n - 1]
               /\ Len(old) < MAX_BUFFER_SIZE => n = Len(old) + 1
               /\ Len(old) >= MAX_BUFFER_SIZE => n = Len(old) ]_vars

\* C2 witness: the sentence-ending result "h," + "t" was applied twice in a
\* row to the one-line buffer
C2_Witness ==
    /\ program = "gummy"
    /\ op.name = "update_text"
    /\ budget = 0
    /\ chinese_text_buffer.lines = <<<<"h,", "t">>, <<"h,", "t">>, EmptyLine>>

\* C3 as claimed: both transcript buffers of the window hold at most N = 20
\* lines in every reachable state.
C3_BuffersWithinCapacity ==
    program = "gummy" =>
        /\ Len(chinese_text_buffer.lines) <= MAX_BUFFER_SIZE
        /\ Len(target_language_text_buffer.lines) <= MAX_BUFFER_SIZE

\* result r, applied to a buffer old of N lines, dropped the oldest line
\* only: new is old with its tail overwritten, without its first line, and
\* with the empty line appended
EvictsOldest(r, old, new) ==
    (r.is_sentence_end /\ Len(old.lines) = MAX_BUFFER_SIZE) =>
        new.lines = Append(Tail(SetTail(old, <<fixed_text(r.words),
                                               unfixed_text(r.words)>>).lines),
                           EmptyLine)

\* C4 as claimed: a sentence-ending result applied to a buffer that holds N
\* lines removes exactly the oldest line and keeps the order of the others,
\* the new empty line being the tail.
C4_EvictsOldestLine ==
    [][ (program = "gummy" /\ op'.name = "update_text") =>
          /\ op'.transcription.present =>
                EvictsOldest(op'.transcription, chinese_text_buffer, chinese_text_buffer')
          /\ op'.translation.present =>
                EvictsOldest(op'.translation, target_language_text_buffer,
                             target_language_text_buffer') ]_vars

\* every item is the sentence-end marker or was made from a fixed word
OnlyFixed(items) ==
    \A k \in 1..Len(items) : items[k].is_sentence_end \/ items[k].from_fixed

\* C5: every item on_event puts on asr_fixed_words is a fixed word of the
\* target-language result it processes, or the empty sentence-end marker;
\* hence the input of every synthesis request, and the text the synthesis
\* worker is accumulating, are made of fixed words and pause markers only
\* (both programs).
C5_OnlyFixedWordsReachSynthesis ==
    /\ op.name = "on_event" =>
          \A k \in 1..Len(op.put) :
             \/ op.put[k] = EndMarker
             \/ \E i \in 1..Len(op.translation.words) :
                   /\ op.translation.words[i].fixed
                   /\ op.translation.words[i].text = op.put[k].word
                   /\ op.put[k] = Item(op.put[k].word, FALSE, TRUE)
    /\ OnlyFixed(asr_fixed_words)
    /\ \A t \in DOMAIN workers :
          /\ OnlyFixed(workers[t].parts)
          /\ workers[t].buffer = JoinParts(workers[t].parts)
    /\ \A k \in 1..Len(tts_requests) :
          /\ OnlyFixed(tts_requests[k].parts)
          /\ tts_requests[k].input = JoinParts(tts_requests[k].parts)

\* C5 witness: a synthesis request was sent whose text holds a word, after a
\* result that carried an unfixed word
C5_Witness ==
    /\ \E k \in 1..Len(tts_requests) :
          \E j \in 1..Len(tts_requests[k].parts) :
             tts_requests[k].parts[j].word = "t"
    /\ \E q \in 1..Len(wx_text_queue) :
          \E i \in 1..Len(wx_text_queue[q][2].translation.words) :
             ~wx_text_queue[q][2].translation.words[i].fixed

\* C6 as claimed: at the end of a sentence over whose results no fixed word
\* was revised or removed, the words on_event queued for the sentence
\* concatenate to the fixed text of the final result.
C6_EachFixedWordQueuedOnce ==
    ( /\ op.name = "on_event"
      /\ op.queued
      /\ op.translation.is_sentence_end
      /\ op.monotone )
    => op.emitted = fixed_text(op.translation.words)

\* C7: a round of the synthesis worker that takes an item sends a request
\* exactly when the item is the sentence-end marker, or is one of the three
\* clause punctuation marks and the buffer already holds more than 15
\* characters; a punctuation mark met with 15 characters or fewer is only
\* accumulated (both programs).
C7_FlushTrigger ==
    [][ op'.name = "tts_task" =>
          LET item   == Head(asr_fixed_words)
              length == Len(workers[op'.worker].buffer)
              issued == Len(tts_requests') = Len(tts_requests) + 1
          IN  /\ issued \/ tts_requests' = tts_requests
              /\ item.is_sentence_end => issued
              /\ ( /\ ~item.is_sentence_end
                   /\ item.word \in {";", ",", "."}
                   /\ length <= 15 ) => ~issued
              /\ ( /\ ~item.is_sentence_end
                   /\ item.word \in {";", ",", "."}
                   /\ length > 15 ) => issued
              /\ ( /\ ~item.is_sentence_end
                   /\ item.word \notin {";", ",", "."} ) => ~issued ]_vars

\* C7 witness: the first request was sent on the ideographic comma, met with
\* more than 15 characters in the buffer, after a fullwidth comma met with
\* fewer had only been accumulated
C7_Witness ==
    /\ op.name = "tts_task"
    /\ op.flushed
    /\ op.item.word = ";"
    /\ Len(op.buffer_before) > 15
    /\ Len(tts_requests) = 1
    /\ \E j \in 1..Len(tts_requests[1].parts) : tts_requests[1].parts[j].word = ","

\* the service has recovered from the death of its recognition worker:
\* check_and_restart launched the current recognition worker, no earlier
\* recognition worker is alive, the service is running and the current
\* worker is feeding its open session
Recovered ==
    /\ is_running
    /\ ui_pc = "idle"
    /\ asr_thread # 0
    /\ workers[asr_thread].caller = "check_and_restart"
    /\ workers[asr_thread].pc = "inner"
    /\ sessions[workers[asr_thread].session].state = "open"
    /\ \A t \in DOMAIN workers :
          (workers[t].kind = "asr" /\ t # asr_thread) => ~is_alive(t)

\* C8 as claimed: after check_and_restart has replaced a dead recognition
\* worker, the pipeline runs with a live recognition worker and exactly one
\* open capture handle.
C8_RecoveryLeavesOneHandle ==
    Recovered => (is_alive(asr_thread) /\ Cardinality(open_streams) = 1)

\* C9 as claimed: when stop() has returned inside set_languages or
\* check_and_restart, and start() is about to be called, no worker thread is
\* alive and no capture handle is open.
C9_StopWaitsForWorkers ==
    ui_pc \in {"sl_sleep", "cr_sleep"} =>
        /\ \A t \in DOMAIN workers : ~is_alive(t)
        /\ open_streams = {}

\* C10 as claimed: a callback never reads a target language other than the
\* one its session was started with, the new language being stored only
\* after stop().
C10_OldSessionNeverReadsNewLanguage ==
    (op.name = "on_event" /\ op.read_language # "none") =>
        op.read_language = sessions[op.session].target

(***************************************************************************)
(* C11, C12: start() without a key, and start() while running              *)
(***************************************************************************)
\* the step is a call of the service: it spends budget and names itself
Called(name) == budget' # budget /\ op'.name = name

\* C11: start() with no API key in the configuration posts the
\* missing-credential status, leaves is_running false and launches no
\* worker; no worker ever exists without a key; and check_and_restart
\* changes nothing while the service is not running, so nothing retries
C11_NoKeyNoStart ==
    /\ [][(Called("start") /\ ~api_key) =>
             /\ last_status' = "no_api_key"
             /\ ~is_running'
             /\ workers' = workers
             /\ UNCHANGED <<asr_thread, tts_thread, devVars, thrVars>>]_vars
    /\ [][(Called("check_and_restart") /\ ~is_running) =>
             /\ ui_pc' = "idle"
             /\ UNCHANGED <<svcVars, devVars, thrVars, queueVars, langVars, winVars>>]_vars
    /\ [](~api_key => (~is_running /\ workers = <<>>))

\* start() has failed for want of a key and a health check has run since
C11_Witness ==
    /\ ~api_key
    /\ last_status = "no_api_key"
    /\ op.name = "check_and_restart"
    /\ ~is_running
    /\ workers = <<>>

\* C12: start() while the service is running launches no worker, posts no
\* status and leaves every field as it was
C12_StartWhileRunningIsNoOp ==
    [][(Called("start") /\ is_running) =>
          UNCHANGED <<svcVars, devVars, thrVars, queueVars, langVars, winVars, ui_pc>>]_vars

\* start() has been called on a running service whose workers are at work
C12_Witness ==
    /\ op.name = "start"
    /\ ~op.launched
    /\ is_running
    /\ \E t \in DOMAIN workers : workers[t].pc = "inner"

(***************************************************************************)
(* C13: the retry schedule of asr_task                                     *)
(***************************************************************************)
\* the wait the schedule gives a failure of class err, the unknown class by
\* the number of unknown failures that have happened, this one included
Schedule(err, occurrences) ==
    CASE err = "network" -> 2
      [] err = "device"  -> 1
      [] err = "auth"    -> 5
      [] err = "other"   -> IF occurrences < 3 THEN 1 ELSE 5

\* C13: a failure of the recognition session is followed by the wait of its
\* class: network 2s, audio device 1s, authentication 5s with a status, and
\* an unknown error 1s while fewer than 3 of them have happened, a report to
\* the window and 5s from the third on
C13_RetrySchedule ==
    [][Called("asr_task_start_fails") =>
          LET w == workers'[op'.worker]
          IN  /\ op'.wait = Schedule(op'.err, w.unknown_seen)
              /\ op'.err = "auth" => last_status' = "invalid_api_key"
              /\ op'.err = "other" =>
                    (last_status' = "service_error") = (w.unknown_seen >= 3)]_vars

(***************************************************************************)
(* C14: a synthesis attempt empties the text buffer                        *)
(***************************************************************************)
\* C14: after every flush the text buffer of tts_task is empty whatever the
\* outcome of the request (200, another status, a raised exception), and
\* every request carries the pause marker once, at its end: the text of a
\* failed sentence is in no later request
C14_FlushAlwaysEmptiesBuffer ==
    /\ (op.name = "tts_task" /\ op.flushed) => workers[op.worker].buffer = ""
    /\ \A j \in DOMAIN tts_requests :
          \A i \in 1..(Len(tts_requests[j].parts) - 1) : ~tts_requests[j].parts[i].marked

(***************************************************************************)
(* C15: chunked playback                                                   *)
(***************************************************************************)
\* C15: every write to the playback stream except possibly the last is
\* exactly 4096 bytes; a full chunk is written as soon as 4096 bytes are
\* buffered, so fewer are left between chunks; the remainder of 1..4095
\* bytes is written once when the response ends; and the writes,
\* concatenated, are the bytes received, in order
C15_ChunkedPlayback ==
    \A t \in DOMAIN workers :
       LET w == workers[t]
       IN  (w.kind = "tts" /\ op.name \in {"iter_content", "playback_end"}) =>
             /\ \A i \in DOMAIN w.writes :
                   \/ BLen(w.writes[i]) = 4096
                   \/ /\ i = Len(w.writes)
                      /\ w.pc # "playing"
                      /\ BLen(w.writes[i]) \in 1..4095
             /\ w.pc = "playing" =>
                   /\ BLen(w.buffer2) < 4096
                   /\ BCat(BCatAll(w.writes), w.buffer2) = w.received
             /\ w.pc # "playing" =>
                   /\ BCatAll(w.writes) = w.received
                   /\ BLen(BCatAll(w.writes)) = BLen(w.received)

\* a response of more than two full chunks has been played to its end in
\* two writes of 4096 bytes and one of the remainder
C15_Witness ==
    /\ op.name = "playback_end"
    /\ Len(workers[2].writes) = 3
    /\ BLen(workers[2].writes[3]) \in 1..4095
    /\ BLen(workers[2].received) > 2 * 4096

(***************************************************************************)
(* C16: cancellation                                                       *)
(***************************************************************************)
\* C16: once the service has been stopped and is not started again, every
\* worker loop sees is_running false and ends, and the capture device is
\* closed and stays closed: no handle opened by a session stays open
C16_StopEndsWorkersAndFreesDevice ==
    <>[](~is_running /\ ui_pc = "idle") =>
        <>[](/\ open_streams = {}
             /\ \A t \in DOMAIN workers : ~is_alive(t))

(***************************************************************************)
(* C17: the synthesis loop while speech is disabled                        *)
(***************************************************************************)
IsPrefix(a, b) == Len(a) <= Len(b) /\ SubSeq(b, 1, Len(a)) = a

\* C17: while TTS is disabled the synthesis loop takes nothing from
\* asr_fixed_words and sends no request, and when TTS is enabled again the
\* items queued before and during the disabled period are still in the
\* queue, in order
C17_DisabledLoopKeepsQueue ==
    /\ [][(~enable_tts /\ ~enable_tts') =>
             /\ tts_requests' = tts_requests
             /\ IsPrefix(asr_fixed_words, asr_fixed_words')]_vars
    /\ [][(~enable_tts /\ enable_tts') => asr_fixed_words' = asr_fixed_words]_vars

(***************************************************************************)
(* C18: the window drains at most 10 results a tick                        *)
(***************************************************************************)
\* C18: a tick of on_timer removes at most 10 items from wx_text_queue;
\* they are its oldest items, in the order of the queue, and every other
\* item stays in the queue, in order, for later ticks
C18_DrainIsBoundedAndFifo ==
    [][Called("on_timer") =>
          LET updates == op'.updates
              n       == Len(updates)
          IN  /\ n <= 10
              /\ n <= Len(wx_text_queue)
              /\ updates = SubSeq(wx_text_queue, 1, n)
              /\ wx_text_queue' = SubSeq(wx_text_queue, n + 1, Len(wx_text_queue))]_vars

\* a tick has taken 10 results from a longer queue and left the others
C18_Witness ==
    /\ op.name = "on_timer"
    /\ Len(op.updates) = 10
    /\ wx_text_queue # <<>>
    /\ wx_text_queue[1] = BurstItem(11)

(***************************************************************************)
(* C19: the open line at the tail                                          *)
(***************************************************************************)
\* the last line of a transcript buffer
LastLine(text_buffer) == text_buffer.lines[Len(text_buffer.lines)]

\* C19: each transcript buffer always holds at least one line, the last
\* being the line in progress, and right after a sentence-ending result has
\* been applied to a buffer its last line is the empty line
C19_OpenTail ==
    /\ [](/\ chinese_text_buffer.lines # <<>>
          /\ target_language_text_buffer.lines # <<>>)
    /\ [][Called("update_text") =>
             /\ (op'.transcription.present /\ op'.transcription.is_sentence_end) =>
                   LastLine(chinese_text_buffer') = EmptyLine
             /\ (op'.translation.present /\ op'.translation.is_sentence_end) =>
                   LastLine(target_language_text_buffer') = EmptyLine]_vars

(***************************************************************************)
(* C20: one worker of each kind                                            *)
(***************************************************************************)
\* the threads of a kind that are alive
Alive(kind) == {t \in DOMAIN workers : workers[t].kind = kind /\ is_alive(t)}

\* C20: whatever the interleaving of start(), stop(), set_languages() and
\* check_and_restart() with the worker loops, at most one recognition
\* thread and at most one synthesis thread are alive
C20_OneWorkerOfEachKind ==
    /\ Cardinality(Alive("asr")) <= 1
    /\ Cardinality(Alive("tts")) <= 1

(***************************************************************************)
(* C21: a single capture handle                                            *)
(***************************************************************************)
\* C21: at most one capture handle is open at any time, and it is the one
\* the service refers to: on_open never overwrites an open handle, an
\* on_close of an old session never closes a newer session's handle, and
\* none stays open across a stop/start cycle
C21_SingleDeviceHandle ==
    /\ Cardinality(open_streams) <= 1
    /\ open_streams \subseteq {audio_stream}

(***************************************************************************)
(* C22, C23: the lock of the capture device                                *)
(***************************************************************************)
\* C22: the frame read of asr_task excludes the close paths (on_close,
\* close_audio_resources, stop): whenever the worker reads, the handle it
\* tested is still set and still open
C22_ReadExcludesClose ==
    [][\A t \in DOMAIN workers :
          (workers[t].pc = "read" /\ workers'[t].pc = "inner") =>
             /\ audio_stream # 0
             /\ audio_stream \in open_streams]_vars

\* C23: outside the critical sections of on_open, on_close,
\* close_audio_resources and stop, mic and audio_stream are both set or
\* both None
C23_MicAndStreamTogether == (mic = 0) <=> (audio_stream = 0)

(***************************************************************************)
(* C24: no exception ends a worker                                         *)
(***************************************************************************)
\* C24: a worker thread, asr_task or tts_task, ends only once is_running
\* is false: while it is true no exception, raised in the loop or in the
\* set-up before it, ends a thread
C24_WorkersEndOnlyWhenStopped ==
    [][\A t \in DOMAIN workers :
          (is_alive(t) /\ workers'[t].pc \in DeadPcs) => ~is_running]_vars

(***************************************************************************)
(* C25: every failure of asr_task reaches the window                       *)
(***************************************************************************)
\* C25: every failure asr_task catches posts a status to the window,
\* whatever its class (network, device, authentication, unknown) and
\* whatever the retry count
C25_EveryFailurePostsStatus ==
    [][Called("asr_task_start_fails") =>
          /\ op'.posted
          /\ last_status' \in {"network_problem", "audio_device_problem",
                                "invalid_api_key", "service_error"}]_vars

(***************************************************************************)
(* C26: a retry starts a new session                                       *)
(***************************************************************************)
\* C26: every round of the outer loop of asr_task, a retry included, makes
\* a new Callback whose cursors sentence_ptr, zh_word_ptr and tg_word_ptr
\* are 0 and a new recognizer; the sessions made before keep their state
\* and hand none of it over
C26_RetryStartsNewSession ==
    [][\A t \in DOMAIN workers :
          (workers[t].pc = "outer" /\ workers'[t].pc = "inner") =>
             LET s == workers'[t].session
             IN  /\ s = Len(sessions) + 1
                 /\ s # workers[t].session
                 /\ Len(sessions') = s
                 /\ SubSeq(sessions', 1, Len(sessions)) = sessions
                 /\ sessions'[s].state = "open"
                 /\ sessions'[s].owner = t
                 /\ sessions'[s].sentence_ptr = 0
                 /\ sessions'[s].zh_word_ptr = 0
                 /\ sessions'[s].tg_word_ptr = 0
                 /\ sessions'[s].sentence = NewSentence]_vars

\* a thread whose session was ended mid-sentence, with its cursor at 1,
\* has gone round its loop and feeds a second session whose cursors are 0
C26_Witness ==
    \E t \in DOMAIN workers :
       /\ workers[t].pc = "inner"
       /\ workers[t].session > 1
       /\ sessions[workers[t].session].tg_word_ptr = 0
       /\ \E s \in 1..(workers[t].session - 1) :
             /\ sessions[s].owner = t
             /\ sessions[s].tg_word_ptr > 0

(***************************************************************************)
(* C27: the stash step of gummy_translator.py                              *)
(***************************************************************************)
\* the line the words ws make
LineOf(ws) == <<fixed_text(ws), unfixed_text(ws)>>

\* C27: in FloatingSubtitleWindow.update_text the stash overwrites the tail
\* before the sentence-end step: after a sentence-ending result with a
\* stash the line just closed holds the stash's text and the new tail line
\* is empty
C27_StashBeforeSentenceEnd ==
    [][(/\ Called("update_text")
        /\ program = "gummy_translator"
        /\ op'.transcription.present
        /\ op'.transcription.stash.present
        /\ op'.transcription.is_sentence_end) =>
          LET lines == chinese_text_buffer'.lines
              n     == Len(lines)
          IN  /\ n = Len(chinese_text_buffer.lines) + 1
              /\ lines[n] = EmptyLine
              /\ lines[n - 1] = LineOf(op'.transcription.stash.words)]_vars


\* process_result of the running program
Apply(result, text_buffer, subscript_ok) ==
    IF program = "gummy" THEN process_result(result, text_buffer)
    ELSE gt_process_result(result, text_buffer, subscript_ok)

\* the results that do not end a sentence
NonEnding == {r \in SentenceResults \cup StashResults : ~r.is_sentence_end}

\* r1 took the buffer from b0 to b1 as a full replacement of the tail
FullReplacement(r1, b0, b1) ==
    \E ok \in BOOLEAN :
        /\ b1 = Apply(r1, b0, ok)
        /\ Apply(r1, b1, ok) = b1
        /\ \A r2 \in NonEnding : Apply(r2, b1, ok) = Apply(r2, b0, ok)
        /\ Len(b1.lines) = Len(b0.lines)
        /\ \A i \in 1..(Len(b0.lines) - 1) : b1.lines[i] = b0.lines[i]

\* C28: a result that does not end a sentence replaces the open line in full:
\* applying any non-ending r2 after it gives the buffer r2 alone gives, applying
\* it a second time changes nothing, and every line before the tail is kept.
C28_ResultReplacesTail ==
    [][Called("update_text") =>
         /\ (op'.transcription.present /\ ~op'.transcription.is_sentence_end) =>
               FullReplacement(op'.transcription, chinese_text_buffer, chinese_text_buffer')
         /\ (op'.translation.present /\ ~op'.translation.is_sentence_end) =>
               FullReplacement(op'.translation,
                               IF program = "gummy"
                               THEN TrimTarget(target_language_text_buffer)
                               ELSE target_language_text_buffer,
                               target_language_text_buffer')]_vars

\* a non-ending result with words has just replaced the tail of a buffer that
\* holds closed lines before it
C28_Witness ==
    /\ op.name = "update_text"
    /\ op.transcription.present
    /\ ~op.transcription.is_sentence_end
    /\ op.transcription.words # <<>>
    /\ Len(chinese_text_buffer.lines) >= 2
    /\ LastLine(chinese_text_buffer) = LineOf(op.transcription.words)


\* the two results of the worked example: "t" and "h" fixed with the sentence
\* open, then "t", "h", "." fixed with the sentence ended
R1 == Res(<<W("t", TRUE), W("h", TRUE)>>, FALSE)
R2 == Res(<<W("t", TRUE), W("h", TRUE), W(".", TRUE)>>, TRUE)

\* C29: whenever update_text renders a track, the text box holds the
\* concatenation, in buffer order, of fixed part + unfixed part of every line
\* of that track's buffer; and R2 applied to the buffer R1 left from an empty
\* one gives the lines ["th.", ""], ["", ""] and the rendered text "th.".
C29_RenderedTextIsConcatenation ==
    [][Called("update_text") =>
         /\ (op'.transcription.present
               /\ (chinese_text_box' # chinese_text_box
                     \/ \A ok \in BOOLEAN : ~gt_raises(op'.transcription, ok))) =>
               chinese_text_box' = JoinLines(chinese_text_buffer'.lines)
         /\ (op'.translation.present
               /\ (target_text_box' # target_text_box
                     \/ \A ok \in BOOLEAN : ~gt_raises(op'.translation, ok))) =>
               target_text_box' = JoinLines(target_language_text_buffer'.lines)
         /\ (op'.transcription = R2 /\ chinese_text_buffer.lines = <<LineOf(R1.words)>>) =>
               /\ chinese_text_buffer'.lines = <<<<"th.", "">>, <<"", "">>>>
               /\ chinese_text_box' = "th."]_vars

\* R2 has been applied and the buffer holds the two lines of the example
C29_Witness ==
    /\ op.name = "update_text"
    /\ op.transcription = R2
    /\ chinese_text_buffer.lines = <<LineOf(R2.words), EmptyLine>>
    /\ chinese_text_box = "th."


\* the window after update_text has been applied to each pair of seq, the
\* first pair first
RECURSIVE AppliedInOrder(_, _)
AppliedInOrder(win, seq) ==
    IF seq = <<>> THEN win
    ELSE update_text_window(AppliedInOrder(win, SubSeq(seq, 1, Len(seq) - 1)),
                            seq[Len(seq)])

\* C30: results are applied in arrival order. A timer tick takes the pairs at
\* the head of wx_text_queue, leaves the rest in place, and applies update_text
\* to the pairs it took, one by one in queue order; every other step keeps the
\* queued pairs and adds at most one pair at the back. So the pairs applied
\* over all ticks are the pairs on_event put, in the same order, none skipped
\* or applied twice.
C30_AppliedInArrivalOrder ==
    [][IF Called("on_timer")
       THEN /\ op'.updates \o wx_text_queue' = wx_text_queue
            /\ LET win == AppliedInOrder([chinese |-> chinese_text_buffer,
                                          target |-> target_language_text_buffer,
                                          chinese_box |-> chinese_text_box,
                                          target_box |-> target_text_box],
                                         op'.updates)
               IN  /\ chinese_text_buffer' = win.chinese
                   /\ target_language_text_buffer' = win.target
                   /\ chinese_text_box' = win.chinese_box
                   /\ target_text_box' = win.target_box
       ELSE /\ IsPrefix(wx_text_queue, wx_text_queue')
            /\ Len(wx_text_queue') <= Len(wx_text_queue) + 1
            /\ UNCHANGED winVars]_vars

\* a tick has applied a pair that on_event put behind pairs already queued,
\* together with the pairs before it
C30_Witness ==
    /\ op.name = "on_timer"
    /\ Len(op.updates) >= 3
    /\ \E i \in 1..Len(op.updates) : op.updates[i] \notin {BurstItem(j) : j \in 1..Len(Burst)}
    /\ wx_text_queue = <<>>

(***************************************************************************)
(* The feed loop of both programs                                          *)
(***************************************************************************)

MaxFeedCalls == 3

\* gummy_translator.py gummyAsrTask, "if audio_stream: ... else: break"
gummyAsrTask_test(t) ==
    LET w == workers[t]
    IN  /\ program = "gummy_translator"
        /\ w.kind = "asr"
        /\ w.pc = "inner"
        /\ workers' = SetWorker(t, [w EXCEPT !.pc = IF audio_stream # 0 THEN "read"
                                                    ELSE "stop"])
        /\ UNCHANGED <<program, winVars, ui_pc, langVars, svcVars, devVars, queueVars,
                       sessions, tts_requests, budget, op>>

\* gummy_translator.py gummyAsrTask, translator.stop() after the loop: no
\* handler surrounds it, so on a session that has ended the thread dies
gummyAsrTask_stop(t) ==
    LET w == workers[t]
        s == w.session
    IN  /\ program = "gummy_translator"
        /\ w.kind = "asr"
        /\ w.pc = "stop"
        /\ IF sessions[s].state = "closed"
           THEN /\ workers' = SetWorker(t, [w EXCEPT !.pc = "dead"])
                /\ UNCHANGED <<sessions, devVars>>
           ELSE /\ workers' = SetWorker(t, [w EXCEPT !.pc = "done"])
                /\ sessions' = [sessions EXCEPT ![s].state = "closed"]
                /\ on_close_body
        /\ UNCHANGED <<program, winVars, ui_pc, langVars, svcVars, queueVars,
                       tts_requests, budget, op>>

InitFeed ==
    /\ program \in {"gummy", "gummy_translator"}
    /\ chinese_text_buffer =
          [lines |-> <<EmptyLine>>,
           maxlen |-> IF program = "gummy" THEN MAX_BUFFER_SIZE ELSE NoMaxlen]
    /\ target_language_text_buffer = chinese_text_buffer
    /\ chinese_text_box = ""
    /\ target_text_box = ""
    /\ ui_pc = "idle"
    /\ source_language = IF program = "gummy" THEN "zh-CN" ELSE "en-US"
    /\ target_language = IF program = "gummy" THEN "en-US" ELSE "zh"
    /\ is_running = TRUE
    /\ api_key = TRUE
    /\ enable_tts = FALSE
    /\ cfg_tts_key = FALSE
    /\ tts_api_key = "unset"
    /\ asr_thread = 1
    /\ tts_thread = 0
    /\ last_status = "started"
    /\ mic = 1
    /\ audio_stream = 1
    /\ open_streams = {1}
    /\ wx_text_queue = <<>>
    /\ asr_fixed_words = <<>>
    /\ workers = << [NewWorker("asr", IF program = "gummy" THEN "OnInit" ELSE "main")
                        EXCEPT !.pc = "inner", !.session = 1] >>
    /\ sessions = << NewSession(LangCode(target_language), 1) >>
    /\ tts_requests = <<>>
    /\ budget = MaxFeedCalls
    /\ op = [name |-> "init"]

NextFeed ==
    \/ stop
    \/ start
    \/ \E t \in DOMAIN workers : program = "gummy" /\ asr_task_outer(t)
    \/ \E t \in DOMAIN workers : program = "gummy" /\ asr_task_test(t)
    \/ \E t \in DOMAIN workers : program = "gummy" /\ asr_task_stop(t)
    \/ \E t \in DOMAIN workers : gummyAsrTask_test(t)
    \/ \E t \in DOMAIN workers : gummyAsrTask_stop(t)
    \/ \E t \in DOMAIN workers : asr_task_read(t)
    \/ \E s \in DOMAIN sessions : on_close(s)

SpecFeed == InitFeed /\ [][NextFeed]_vars

\* C31: a missing device handle is not a failure: while the feed loop runs
\* (is_running in gummy.py) and audio_stream is None, the recognition worker
\* stays in its feed loop and no session is ended by it.
C31_NoHandleKeepsFeedLoop ==
    [][\A t \in DOMAIN workers :
          (/\ workers[t].kind = "asr"
           /\ workers[t].pc = "inner"
           /\ audio_stream = 0
           /\ is_running
           /\ workers'[t] # workers[t]) => workers'[t].pc = "inner"]_vars

RECURSIVE FixedItems(_)
\* the queue items of the fixed words of a result, in the order of the words
FixedItems(words) ==
    IF words = <<>> THEN <<>>
    ELSE (IF Head(words).fixed THEN <<Item(Head(words).text, FALSE, TRUE)>> ELSE <<>>)
         \o FixedItems(Tail(words))

\* the items of put that are not the sentence-end marker
WordsOf(put) == SelectSeq(put, LAMBDA it : ~it.is_sentence_end)

\* C32: whenever on_event queues for synthesis, a sentence-ending result puts
\* its newly fixed words first and then exactly one sentence-end marker, as the
\* last item, and resets the word cursor to 0; a result that does not end the
\* sentence puts no marker; and a result met with the cursor at 0 (the first
\* result of a sentence) has its fixed words queued from index 0 on, so in
\* asr_fixed_words each marker stands between the words of one sentence and
\* the words of the next.
C32_MarkerAfterWords ==
    [][(Called("on_event") /\ op'.queued) =>
         LET put == op'.put
             tl  == op'.translation
             s   == op'.session
             n   == Len(put)
         IN  /\ asr_fixed_words' = asr_fixed_words \o put
             /\ tl.is_sentence_end =>
                   /\ n >= 1
                   /\ put[n] = Item("", TRUE, FALSE)
                   /\ WordsOf(put) = SubSeq(put, 1, n - 1)
                   /\ sessions'[s].tg_word_ptr = 0
             /\ ~tl.is_sentence_end => WordsOf(put) = put
             /\ sessions[s].tg_word_ptr = 0 => WordsOf(put) = FixedItems(tl.words)]_vars

\* the queue holds the words of a sentence, its marker, and behind the marker
\* the first fixed word of the next sentence, queued by the last on_event
C32_Witness ==
    /\ op.name = "on_event"
    /\ op.queued
    /\ ~op.translation.is_sentence_end
    /\ op.put # <<>>
    /\ \E k \in 2..(Len(asr_fixed_words) - 1) :
          /\ asr_fixed_words[k] = EndMarker
          /\ asr_fixed_words[k - 1] # EndMarker
          /\ SubSeq(asr_fixed_words, k + 1, Len(asr_fixed_words)) = op.put
          /\ op.put[1].word = op.translation.words[1].text

\* C33: the retry counter of asr_task grows by one with every network, device
\* and unknown failure and is left alone by an authentication failure, and it
\* is never set back while the worker keeps running: at every unknown failure
\* the counter is at least the number of unknown failures the worker has had,
\* so from the third on each is reported and followed by the 5 s wait.
C33_RetryCounterNeverReset ==
    [][Called("asr_task_start_fails") =>
          LET t == op'.worker
              w == workers'[t]
          IN  /\ w.retry_count = workers[t].retry_count
                                 + (IF op'.err = "auth" THEN 0 ELSE 1)
              /\ op'.err = "other" =>
                    /\ w.retry_count >= w.unknown_seen
                    /\ w.unknown_seen >= max_retries =>
                          (op'.wait = 5 /\ last_status' = "service_error")]_vars

(***************************************************************************)
(* A session restarted in the middle of a sentence                         *)
(***************************************************************************)

MaxRestartEvents == 5

InitRestart ==
    /\ program = "gummy"
    /\ chinese_text_buffer = [lines |-> <<EmptyLine>>, maxlen |-> MAX_BUFFER_SIZE]
    /\ target_language_text_buffer = [lines |-> <<EmptyLine>>, maxlen |-> MAX_BUFFER_SIZE]
    /\ chinese_text_box = ""
    /\ target_text_box = ""
    /\ ui_pc = "idle"
    /\ source_language = "zh-CN"
    /\ target_language = "en-US"
    /\ is_running = TRUE
    /\ api_key = TRUE
    /\ enable_tts = TRUE
    /\ cfg_tts_key = FALSE
    /\ tts_api_key = "unset"
    /\ asr_thread = 1
    /\ tts_thread = 0
    /\ last_status = "no_tts_key"
    /\ mic = 0
    /\ audio_stream = 0
    /\ open_streams = {}
    /\ wx_text_queue = <<>>
    /\ asr_fixed_words = <<>>
    /\ workers = <<NewWorker("asr", "OnInit")>>
    /\ sessions = <<>>
    /\ tts_requests = <<>>
    /\ budget = MaxRestartEvents
    /\ op = [name |-> "init"]

NextRestart ==
    \/ stop
    \/ start
    \/ \E t \in DOMAIN workers : asr_task_outer(t)
    \/ \E t \in DOMAIN workers : asr_task_inner(t)
    \/ \E t \in DOMAIN workers : asr_task_stop(t)
    \/ \E s \in DOMAIN sessions : on_close(s)
    \/ \E s \in DOMAIN sessions, r \in RetryResults :
          on_event(s, NoResult, TranslationFor(sessions[s].target, r))

SpecRestart == InitRestart /\ [][NextRestart]_vars

\* the items of a queue behind its last sentence-end marker
RECURSIVE OpenWords(_)
OpenWords(items) ==
    IF items = <<>> THEN <<>>
    ELSE IF items[Len(items)].is_sentence_end THEN <<>>
    ELSE Append(OpenWords(SubSeq(items, 1, Len(items) - 1)), items[Len(items)])

\* C34: a synthesis request never mixes recognition sessions: when asr_task
\* has restarted its session after a failure and the new session queues its
\* first words, no word of an unfinished sentence of the earlier session is
\* waiting in asr_fixed_words or in the text buffer of tts_task, where it
\* would be joined with them.
C34_NoWordsOfEarlierSessionPending ==
    [][(/\ Called("on_event")
        /\ op'.queued
        /\ op'.put # <<>>
        /\ op'.session > 1
        /\ \A s \in 1..(op'.session - 1) :
              /\ sessions[s].state = "closed"
              /\ sessions[s].owner = sessions[op'.session].owner
        /\ workers[sessions[op'.session].owner].unknown_seen >= 1
        /\ sessions[op'.session].sentence_ptr = 0
        /\ sessions[op'.session].sentence = NewSentence) =>
          /\ OpenWords(asr_fixed_words) = <<>>
          /\ asr_fixed_words = <<>> =>
                \A t \in DOMAIN workers :
                   workers[t].kind = "tts" => workers[t].buffer = ""]_vars

(***************************************************************************)
(* Queues that are emptied while workers use them                          *)
(***************************************************************************)

MaxDrainEvents == 4

\* tts_task / cosyvoiceTtsTask, the loop down to "if not asr_fixed_words.empty()":
\* with the queue seen non-empty the worker goes on to get()
tts_task_check(t) ==
    LET w == workers[t]
    IN  /\ w.kind = "tts"
        /\ w.pc = "loop"
        /\ program = "gummy" => is_running
        /\ enable_tts
        /\ asr_fixed_words # <<>>
        /\ workers' = SetWorker(t, [w EXCEPT !.pc = "get"])
        /\ UNCHANGED <<program, winVars, ui_pc, langVars, svcVars, devVars, queueVars,
                       sessions, tts_requests, budget, op>>

\* tts_task / cosyvoiceTtsTask from asr_fixed_words.get() to the end of the
\* loop body; get() blocks while the queue is empty
tts_task_get(t, outcome) ==
    LET w      == workers[t]
        item   == Head(asr_fixed_words)
        flush  == ShouldFlush(item, w.buffer)
        buffer == w.buffer \o item.word \o (IF flush THEN BREATH ELSE "")
        parts  == Append(w.parts, Part(item, flush))
        kept   == ~flush \/ outcome = "exception"
    IN  /\ w.kind = "tts"
        /\ w.pc = "get"
        /\ asr_fixed_words # <<>>
        /\ flush \/ outcome = "ok"
        /\ asr_fixed_words' = Tail(asr_fixed_words)
        /\ tts_requests' = IF flush
                           THEN Append(tts_requests, [input |-> buffer, parts |-> parts,
                                                      worker |-> t])
                           ELSE tts_requests
        /\ workers' = SetWorker(t, [w EXCEPT !.pc = "loop",
                                             !.buffer = IF kept THEN buffer ELSE "",
                                             !.parts = IF kept THEN parts ELSE <<>>])
        /\ op' = [name |-> "tts_task", worker |-> t, item |-> item,
                  buffer_before |-> w.buffer, flushed |-> flush, outcome |-> outcome]
        /\ UNCHANGED <<program, winVars, ui_pc, langVars, svcVars, devVars, wx_text_queue,
                       sessions, budget>>

\* release_resources down to the joins: is_running = False, both queues emptied
release_resources ==
    /\ program = "gummy"
    /\ ui_pc = "idle"
    /\ budget > 0
    /\ budget' = budget - 1
    /\ is_running' = FALSE
    /\ wx_text_queue' = <<>>
    /\ asr_fixed_words' = <<>>
    /\ ui_pc' = "rr_join"
    /\ op' = [name |-> "release_resources"]
    /\ UNCHANGED <<program, winVars, langVars, api_key, enable_tts, cfg_tts_key,
                   tts_api_key, asr_thread, tts_thread, last_status, devVars, thrVars>>

\* release_resources from the joins on: each join returns when its thread has
\* ended or after 2 s, then the device is closed and the call returns; the
\* window is destroyed after it
release_resources_return ==
    /\ ui_pc = "rr_join"
    /\ close_audio_resources
    /\ ui_pc' = "closed"
    /\ op' = [name |-> "release_resources_return"]
    /\ UNCHANGED <<program, winVars, langVars, svcVars, queueVars, thrVars, budget>>

InitDrain ==
    /\ program \in {"gummy", "gummy_translator"}
    /\ chinese_text_buffer =
          [lines |-> <<EmptyLine>>,
           maxlen |-> IF program = "gummy" THEN MAX_BUFFER_SIZE ELSE NoMaxlen]
    /\ target_language_text_buffer = chinese_text_buffer
    /\ chinese_text_box = ""
    /\ target_text_box = ""
    /\ ui_pc = "idle"
    /\ source_language = IF program = "gummy" THEN "zh-CN" ELSE "en-US"
    /\ target_language = IF program = "gummy" THEN "en-US" ELSE "zh"
    /\ is_running = TRUE
    /\ api_key = TRUE
    /\ enable_tts = TRUE
    /\ cfg_tts_key = TRUE
    /\ tts_api_key = "set"
    /\ asr_thread = 1
    /\ tts_thread = 2
    /\ last_status = "started"
    /\ mic = 1
    /\ audio_stream = 1
    /\ open_streams = {1}
    /\ wx_text_queue = <<>>
    /\ asr_fixed_words = <<>>
    /\ workers = << [NewWorker("asr", "OnInit") EXCEPT !.pc = "inner", !.session = 1],
                    [NewWorker("tts", "OnInit") EXCEPT !.pc = "loop"] >>
    /\ sessions = << NewSession(LangCode(target_language), 1) >>
    /\ tts_requests = <<>>
    /\ budget = MaxDrainEvents
    /\ op = [name |-> "init"]

NextDrain ==
    \/ \E r \in RetryResults :
          on_event(1, NoResult, TranslationFor(LangCode(target_language), r))
    \/ \E t \in DOMAIN workers : tts_task_check(t)
    \/ \E t \in DOMAIN workers, outcome \in {"ok", "http_error", "exception"} :
          tts_task_get(t, outcome)
    \/ \E t \in DOMAIN workers : program = "gummy" /\ asr_task_inner(t)
    \/ \E t \in DOMAIN workers : program = "gummy" /\ asr_task_stop(t)
    \/ \E t \in DOMAIN workers : program = "gummy" /\ tts_task_exit(t)
    \/ release_resources
    \/ release_resources_return
    \/ on_key_press

SpecDrain == InitDrain /\ [][NextDrain]_vars

\* C35: the synthesis worker never blocks on its queue: whenever it is at
\* asr_fixed_words.get(), having seen the queue non-empty, an item is there.
C35_GetFindsAnItem ==
    \A t \in DOMAIN workers :
       (workers[t].kind = "tts" /\ workers[t].pc = "get") => asr_fixed_words # <<>>

\* C39: once release_resources has returned, is_running is false, the capture
\* device is closed and both queues are empty, whatever workers and callbacks
\* do afterwards.
C39_ReleasedStaysEmpty ==
    ui_pc = "closed" =>
       /\ ~is_running
       /\ audio_stream = 0
       /\ open_streams = {}
       /\ wx_text_queue = <<>>
       /\ asr_fixed_words = <<>>

(***************************************************************************)
(* The health check after the TTS key has left the configuration           *)
(***************************************************************************)

MaxHealthCalls == 4

\* ConfigManager.save_api_key(key, 'tts_api_key'): the key is stored under
\* tts_api_key_encoded and the plain entry tts_api_key, the one start() reads,
\* is set to ''
save_api_key ==
    /\ program = "gummy"
    /\ ui_pc = "idle"
    /\ budget > 0
    /\ budget' = budget - 1
    /\ cfg_tts_key' = FALSE
    /\ op' = [name |-> "save_api_key"]
    /\ UNCHANGED <<program, winVars, ui_pc, langVars, is_running, api_key, enable_tts,
                   tts_api_key, asr_thread, tts_thread, last_status, devVars,
                   queueVars, thrVars>>

InitHealth ==
    /\ program = "gummy"
    /\ chinese_text_buffer = [lines |-> <<EmptyLine>>, maxlen |-> MAX_BUFFER_SIZE]
    /\ target_language_text_buffer = [lines |-> <<EmptyLine>>, maxlen |-> MAX_BUFFER_SIZE]
    /\ chinese_text_box = ""
    /\ target_text_box = ""
    /\ ui_pc = "idle"
    /\ source_language = "zh-CN"
    /\ target_language = "en-US"
    /\ is_running = TRUE
    /\ api_key = TRUE
    /\ enable_tts = TRUE
    /\ cfg_tts_key = TRUE
    /\ tts_api_key = "unset"
    /\ asr_thread = 1
    /\ tts_thread = 2
    /\ last_status = "started"
    /\ mic = 0
    /\ audio_stream = 0
    /\ open_streams = {}
    /\ wx_text_queue = <<>>
    /\ asr_fixed_words = <<>>
    /\ workers = <<NewWorker("asr", "OnInit"), NewWorker("tts", "OnInit")>>
    /\ sessions = <<>>
    /\ tts_requests = <<>>
    /\ budget = MaxHealthCalls
    /\ op = [name |-> "init"]

NextHealth ==
    \/ save_api_key
    \/ check_and_restart
    \/ check_and_restart_start
    \/ \E t \in DOMAIN workers : asr_task_outer(t)
    \/ \E t \in DOMAIN workers : asr_task_inner(t)
    \/ \E t \in DOMAIN workers : asr_task_stop(t)
    \/ \E t \in DOMAIN workers : tts_task_setup(t)

SpecHealth == InitHealth /\ [][NextHealth]_vars

\* C36: check_and_restart restarts the pipeline only when a worker launched
\* by the most recent start() is dead: the recognition worker, or the
\* synthesis worker if that start() launched one. A dead tts_thread left from
\* an earlier run does not count.
C36_RestartOnlyForOwnWorkers ==
    [][(Called("check_and_restart") /\ op'.restarting) =>
          \/ ~is_alive(asr_thread)
          \/ (tts_thread = asr_thread + 1 /\ ~is_alive(tts_thread))]_vars

(***************************************************************************)
(* Results that are still on their way when the languages change           *)
(***************************************************************************)

MaxLanguageCalls == 4

InitLanguage ==
    /\ program = "gummy"
    /\ chinese_text_buffer = [lines |-> <<EmptyLine>>, maxlen |-> MAX_BUFFER_SIZE]
    /\ target_language_text_buffer = [lines |-> <<EmptyLine>>, maxlen |-> MAX_BUFFER_SIZE]
    /\ chinese_text_box = ""
    /\ target_text_box = ""
    /\ ui_pc = "idle"
    /\ source_language = "zh-CN"
    /\ target_language = "en-US"
    /\ is_running = TRUE
    /\ api_key = TRUE
    /\ enable_tts = FALSE
    /\ cfg_tts_key = FALSE
    /\ tts_api_key = "unset"
    /\ asr_thread = 1
    /\ tts_thread = 0
    /\ last_status = "started"
    /\ mic = 1
    /\ audio_stream = 1
    /\ open_streams = {1}
    /\ wx_text_queue = <<>>
    /\ asr_fixed_words = <<>>
    /\ workers = << [NewWorker("asr", "OnInit") EXCEPT !.pc = "inner", !.session = 1] >>
    /\ sessions = << NewSession(LangCode(target_language), 1) >>
    /\ tts_requests = <<>>
    /\ budget = MaxLanguageCalls
    /\ op = [name |-> "init"]

NextLanguage ==
    \/ apply_settings("zh-CN", IF target_language = "en-US" THEN "ja-JP" ELSE "en-US")
    \/ set_languages_stop
    \/ set_languages_start
    \/ on_timer
    \/ \E t \in DOMAIN workers : asr_task_outer(t)
    \/ \E t \in DOMAIN workers : asr_task_inner(t)
    \/ \E t \in DOMAIN workers : asr_task_stop(t)
    \/ \E s \in DOMAIN sessions, r \in RetryResults :
          on_event(s, r, TranslationFor(sessions[s].target, r))

SpecLanguage == InitLanguage /\ [][NextLanguage]_vars

\* C37: no stale results after a language change: every pair a timer tick
\* applies to the buffers was produced by a session of the language pair the
\* service has at that moment, so nothing the session of the previous pair
\* produced reaches the buffers that apply_settings has reset.
C37_NoStaleResultApplied ==
    [][Called("on_timer") =>
          \A i \in 1..Len(op'.updates) :
             op'.updates[i][2].present =>
                op'.updates[i][2].lang = LangCode(target_language)]_vars

(***************************************************************************)
(* Languages from the configuration, supported or not                      *)
(***************************************************************************)

MaxSettingsCalls == 3

\* language codes a configuration can hold: three of SUPPORTED_LANGUAGES and
\* one that is not in it
ConfiguredLanguages == {"zh-CN", "en-US", "ja-JP", "xx-XX"}

InitSettings ==
    /\ program = "gummy"
    /\ chinese_text_buffer = [lines |-> <<EmptyLine>>, maxlen |-> MAX_BUFFER_SIZE]
    /\ target_language_text_buffer = [lines |-> <<EmptyLine>>, maxlen |-> MAX_BUFFER_SIZE]
    /\ chinese_text_box = ""
    /\ target_text_box = ""
    /\ ui_pc = "idle"
    /\ source_language = "zh-CN"
    /\ target_language = "en-US"
    /\ is_running = FALSE
    /\ api_key = TRUE
    /\ enable_tts = FALSE
    /\ cfg_tts_key = FALSE
    /\ tts_api_key = "unset"
    /\ asr_thread = 0
    /\ tts_thread = 0
    /\ last_status = "constructed"
    /\ mic = 0
    /\ audio_stream = 0
    /\ open_streams = {}
    /\ wx_text_queue = <<>>
    /\ asr_fixed_words = <<>>
    /\ workers = <<>>
    /\ sessions = <<>>
    /\ tts_requests = <<>>
    /\ budget = MaxSettingsCalls
    /\ op = [name |-> "init"]

NextSettings ==
    \/ start
    \/ stop
    \/ \E sl \in {"zh-CN", "xx-XX"}, tl \in ConfiguredLanguages \ {"zh-CN"} :
          apply_settings(sl, tl)
    \/ set_languages_stop
    \/ set_languages_start
    \/ \E t \in DOMAIN workers : asr_task_outer(t)
    \/ \E t \in DOMAIN workers : asr_task_inner(t)
    \/ \E t \in DOMAIN workers : asr_task_stop(t)

SpecSettings == InitSettings /\ [][NextSettings]_vars

\* C38: set_languages with a source or target language outside
\* SUPPORTED_LANGUAGES returns False and changes nothing: the languages,
\* is_running, the workers and the device are as before and neither stop() nor
\* start() is performed; with both languages supported and the service not
\* running it stores the languages and does not start the service.
C38_UnsupportedLanguageChangesNothing ==
    [][Called("apply_settings") =>
          LET supported == /\ op'.source_lang \in SUPPORTED_LANGUAGES
                           /\ op'.target_lang \in SUPPORTED_LANGUAGES
          IN  /\ op'.returned = supported
              /\ ~supported =>
                    /\ UNCHANGED <<langVars, svcVars, devVars, thrVars>>
                    /\ ui_pc' = "idle"
              /\ (supported /\ ~is_running) =>
                    /\ source_language' = op'.source_lang
                    /\ target_language' = op'.target_lang
                    /\ UNCHANGED <<svcVars, devVars, thrVars>>
                    /\ ui_pc' = "idle"]_vars

\* set_languages has refused an unsupported target language while the service
\* was running with a live recognition worker
C38_Witness ==
    /\ op.name = "apply_settings"
    /\ ~op.returned
    /\ op.target_lang = "xx-XX"
    /\ op.source_lang = "zh-CN"
    /\ is_running
    /\ target_language \in SUPPORTED_LANGUAGES
    /\ \E t \in DOMAIN workers : workers[t].pc = "inner"

====
